---- MODULE Spec2Model ----
(***************************************************************************)
(* Knowledge-dependency graph, diagnosis and daily recommendation of the   *)
(* mistake-paper generator: knowledge_system/knowledge_graph.py,           *)
(* recommendation/diagnosis.py, recommendation/daily_recommender.py.       *)
(*                                                                         *)
(* A knowledge point is identified by its id; a list of KnowledgePoint     *)
(* objects is modelled as the sequence of their ids.                       *)
(***************************************************************************)
EXTENDS Integers, Sequences, FiniteSets, TLC

VARIABLES
    knowledge_points,   \* KnowledgeGraph.knowledge_points: id -> point record
    kp_order,           \* insertion order of knowledge_points (dict order)
    config_files,       \* the files of config_dir: <<subject, grade>> -> file
    load_pos,           \* _load_all_knowledge: the iteration of its loops it is at
    stats,              \* student_profile.data["knowledge_point_stats"]: name -> record
    stats_order,        \* insertion order of the stats dict
    total_questions,    \* student_profile.data["total_questions"]
    total_mistakes,     \* student_profile.data["total_mistakes"]
    exams,              \* student_profile.data["exams"]
    learning_trend,     \* student_profile.data["learning_trend"]
    op,                 \* the operation that returned last ("none" before any)
    args,               \* its arguments
    ret,                \* its return value
    point_id,           \* get_all_prerequisites_recursive: the argument of the running call
    visited,            \* get_all_prerequisites_recursive: the visited set
    result,             \* get_all_prerequisites_recursive: the result list
    stack,              \* the call stack of dfs: frames [pid, idx]
    dfs_pc              \* "idle", "running" or "done"

vars == <<knowledge_points, kp_order, config_files, load_pos,
          stats, stats_order, total_questions, total_mistakes, exams, learning_trend,
          op, args, ret, point_id, visited, result, stack, dfs_pc>>

graphVars == <<knowledge_points, kp_order, config_files, load_pos>>
profileVars ==
    <<stats, stats_order, total_questions, total_mistakes, exams, learning_trend>>
callVars == <<op, args, ret>>
dfsVars == <<point_id, visited, result, stack, dfs_pc>>

-----------------------------------------------------------------------------
(* Bounds of the model *)

\* ids of the points a corpus may define
PointIds == {"A", "B", "C", "D"}
\* an id that prerequisites may name but that no corpus defines
Dangling == "Z"
AllIds == PointIds \cup {Dangling}

\* total number of prerequisite entries of a corpus, closure specification
MaxEdges == 4
\* total number of prerequisite entries of a corpus, step-wise specification
SmallEdges == 3
\* total number of prerequisite entries of a corpus, query specifications
QueryEdges == 2
\* depth at which the model stops pushing dfs frames
MaxDepth == 6

\* grades of the corpora of the grade-level specification (target grades 1..MaxGrade)
MaxGrade == 4
\* number of points of a grade that has points, in those corpora
PointsPerGrade == 5
\* total number of prerequisite entries of a corpus, recommender specification
RecEdges == 1
\* largest number of attempts a profile records for one knowledge point
MaxTotal == 2
\* total number of prerequisite entries of a corpus, diagnosis specification
DiagEdges == 1
\* largest number of files in the configuration directory, load specification
MaxFiles == 2
\* largest age in days of a last_practice timestamp, review specification
MaxAge == 9
\* largest number of attempts of a record, diagnosis specification (the smallest
\* is one less)
DiagMaxTotal == 3

\* the largest number of weak points of the wide curriculum
MaxWeak == 12
\* the largest number of exams added to a profile
MaxExams == 2
\* the number of its weak points whose prerequisites and mistakes vary
VariedWeak == 3

None == "None"

-----------------------------------------------------------------------------
(* Helpers on sequences *)

Range(s) == {s[i] : i \in 1..Len(s)}

NoDup(s) == \A i, j \in 1..Len(s) : i /= j => s[i] /= s[j]

\* position of the first occurrence of x in s, 0 when absent
IndexOf(s, x) ==
    IF x \in Range(s) THEN CHOOSE i \in 1..Len(s) : s[i] = x /\ \A j \in 1..(i-1) : s[j] /= x
    ELSE 0

RECURSIVE SumLen(_, _)
SumLen(f, S) ==
    IF S = {} THEN 0
    ELSE LET x == CHOOSE y \in S : TRUE IN Len(f[x]) + SumLen(f, S \ {x})

-----------------------------------------------------------------------------
(* Corpora: the prerequisite lists of the points A..D, with at most k      *)
(* entries in total; an entry is any id, defined or dangling, and a list   *)
(* may repeat an id or name its own point.                                 *)

RECURSIVE PrereqMaps(_)
PrereqMaps(k) ==
    IF k = 0 THEN {[p \in PointIds |-> <<>>]}
    ELSE LET S == PrereqMaps(k - 1) IN
         S \cup {[m EXCEPT ![p] = Append(@, q)] :
                    m \in {x \in S : SumLen(x, PointIds) = k - 1},
                    p \in PointIds, q \in AllIds}

\* KnowledgePoint (the fields the graph, diagnosis and recommender read)
MkPoint(id, name, subject, grade, prereqs) ==
    [id |-> id, name |-> name, subject |-> subject, grade |-> grade,
     prerequisites |-> prereqs]

GraphOf(m) == [p \in PointIds |-> MkPoint(p, p, "MATH", 1, m[p])]

\* the order in which a corpus of the points A..D is loaded
IdOrder == <<"A", "B", "C", "D">>

-----------------------------------------------------------------------------
(* Graph construction: KnowledgeGraph._load_all_knowledge and              *)
(* KnowledgeConfigLoader.load_grade_knowledge. A file of the configuration *)
(* directory is missing, unreadable (open, json.load or _parse_grade_config*)
(* raises) or holds a list of point entries; an entry that                 *)
(* _parse_knowledge_point cannot parse (no category or name, invalid       *)
(* difficulty) has parses = FALSE.                                         *)

\* "for subject in Subject"
Subjects == <<"MATH", "CHINESE", "ENGLISH">>
\* "for grade in range(1, 7)"
FirstGrade == 1
LastGrade == 6
\* "if subject == Subject.ENGLISH and grade < 3: continue"
EnglishFirstGrade == 3

Grades == FirstGrade..LastGrade

AllSlots == Range(Subjects) \X Grades

\* the iterations of the two loops, in order: <<subject, grade>>
SlotSeq ==
    [i \in 1..(Len(Subjects) * Cardinality(Grades)) |->
        <<Subjects[(i - 1) \div Cardinality(Grades) + 1],
          FirstGrade + ((i - 1) % Cardinality(Grades))>>]

MissingFile == [status |-> "missing"]
UnreadableFile == [status |-> "unreadable"]
ReadableFile(points) == [status |-> "ok", points |-> points]

\* an entry of the "points" list of a module of a file
PointEntry(id, name, prereqs, parses) ==
    [id |-> id, name |-> name, prerequisites |-> prereqs, parses |-> parses]

\* the directory from which a graph with these points, in this order, is loaded
FilesOf(kp, order) ==
    [slot \in AllSlots |->
        LET ids == SelectSeq(order, LAMBDA p : /\ kp[p].subject = slot[1]
                                               /\ kp[p].grade = slot[2])
        IN  IF ids = << >> THEN MissingFile
            ELSE ReadableFile([i \in 1..Len(ids) |->
                    PointEntry(ids[i], kp[ids[i]].name, kp[ids[i]].prerequisites, TRUE)])]

\* the state after construction from the directory of the graph
Constructed ==
    /\ config_files = FilesOf(knowledge_points, kp_order)
    /\ load_pos = Len(SlotSeq) + 1

\* the English skip, never taken
english_skipped_never(subject, grade) == FALSE

english_skipped(subject, grade) == subject = "ENGLISH" /\ grade < EnglishFirstGrade

\* the value None of load_grade_knowledge
NotLoaded == [loaded |-> FALSE, points |-> << >>]

\* load_grade_knowledge(subject, grade): None, or the GradeKnowledge with its
\* get_all_points(), the points that parse in file order
load_grade_knowledge(subject, grade) ==
    LET file == config_files[<<subject, grade>>] IN
    IF file.status = "missing" THEN NotLoaded
    ELSE IF file.status = "unreadable" THEN NotLoaded
    ELSE LET parsed == SelectSeq(file.points, LAMBDA e : e.parses)
         IN  [loaded |-> TRUE,
              points |-> [i \in 1..Len(parsed) |->
                            MkPoint(parsed[i].id, parsed[i].name, subject, grade,
                                    parsed[i].prerequisites)]]

\* "for point in ...: self.knowledge_points[point.id] = point" from points[i] on,
\* on g = [kp, order]
RECURSIVE add_points(_, _, _)
add_points(g, points, i) ==
    IF i > Len(points) THEN g
    ELSE LET pt == points[i]
             kp1 == [q \in DOMAIN g.kp \cup {pt.id} |->
                        IF q = pt.id THEN pt ELSE g.kp[q]]
             order1 == IF pt.id \in DOMAIN g.kp THEN g.order ELSE Append(g.order, pt.id)
         IN  add_points([kp |-> kp1, order |-> order1], points, i + 1)

-----------------------------------------------------------------------------
(* KnowledgeGraph queries *)

\* the point with that id (named by its id), or None
get_point(pid) ==
    IF pid \in DOMAIN knowledge_points THEN pid ELSE None

\* the ids of the points get_prerequisites returns
get_prerequisites(pid) ==
    IF get_point(pid) = None THEN <<>>
    ELSE SelectSeq(knowledge_points[pid].prerequisites,
                   LAMBDA q : get_point(q) /= None)

\* the guard that opens dfs(pid): "if pid in visited: return"
is_visited_never(pid, vis) == FALSE

is_visited(pid, vis) == pid \in vis

\* the append that ends dfs(pid), leaving out a point that names the target as
\* a prerequisite
dfs_append_no_back_edge(target, pid, res) ==
    IF pid /= target /\ target \notin Range(knowledge_points[pid].prerequisites)
    THEN Append(res, pid) ELSE res

\* the append that ends dfs(pid): "if pid != point_id: result.append(point)"
dfs_append_noexclude(target, pid, res) == Append(res, pid)

dfs_append(target, pid, res) ==
    IF pid /= target THEN Append(res, pid) ELSE res

\* dfs(pid) of get_all_prerequisites_recursive(target), on st = [visited, result]
RECURSIVE dfs(_, _, _), dfs_loop(_, _, _, _)
dfs(target, pid, st) ==
    IF is_visited(pid, st.visited) THEN st
    ELSE LET st1 == [st EXCEPT !.visited = @ \cup {pid}] IN
         IF get_point(pid) = None THEN st1
         ELSE LET st2 == dfs_loop(target, knowledge_points[pid].prerequisites, 1, st1) IN
              [st2 EXCEPT !.result = dfs_append(target, pid, @)]

dfs_loop(target, prereqs, i, st) ==
    IF i > Len(prereqs) THEN st
    ELSE dfs_loop(target, prereqs, i + 1, dfs(target, prereqs[i], st))

get_all_prerequisites_recursive(pid) ==
    dfs(pid, pid, [visited |-> {}, result |-> <<>>]).result

\* check_readiness: the prerequisites that count, as get_prerequisites resolves them
readiness_prereqs_raw(pid) == knowledge_points[pid].prerequisites

readiness_prereqs(pid) == get_prerequisites(pid)

check_readiness(pid, mastered_points) ==
    IF get_point(pid) = None
    THEN [ready |-> FALSE, reason |-> "no such point"]
    ELSE LET missing == SelectSeq(readiness_prereqs(pid),
                                  LAMBDA q : q \notin mastered_points) IN
         IF missing = << >>
         THEN [ready |-> TRUE, missing |-> << >>, message |-> "can learn"]
         ELSE [ready |-> FALSE, missing |-> missing, message |-> "prerequisites missing"]

\* the loop of get_learning_path over all_prereqs[i..], with its found_start flag
RECURSIVE path_loop_exclusive(_, _, _, _), path_loop(_, _, _, _)
path_loop_exclusive(all_prereqs, i, from_point_id, found_start) ==
    IF i > Len(all_prereqs) THEN << >>
    ELSE (IF found_start THEN <<all_prereqs[i]>> ELSE << >>)
         \o path_loop_exclusive(all_prereqs, i + 1, from_point_id,
                                found_start \/ all_prereqs[i] = from_point_id)

path_loop(all_prereqs, i, from_point_id, found_start) ==
    IF i > Len(all_prereqs) THEN << >>
    ELSE LET found == found_start \/ all_prereqs[i] = from_point_id IN
         (IF found THEN <<all_prereqs[i]>> ELSE << >>)
         \o path_loop(all_prereqs, i + 1, from_point_id, found)

get_learning_path(from_point_id, to_point_id) ==
    LET all_prereqs == get_all_prerequisites_recursive(to_point_id)
        path == path_loop(all_prereqs, 1, from_point_id, FALSE)
    IN  IF get_point(to_point_id) /= None THEN Append(path, to_point_id) ELSE path

\* the loop of find_weak_point_root_cause over all_prereqs[i..]
RECURSIVE first_mastered(_, _, _, _), first_unmastered(_, _, _, _)
first_mastered(all_prereqs, i, student_mastered, weak_point_id) ==
    IF i > Len(all_prereqs) THEN get_point(weak_point_id)
    ELSE IF all_prereqs[i] \in student_mastered THEN all_prereqs[i]
    ELSE first_mastered(all_prereqs, i + 1, student_mastered, weak_point_id)

first_unmastered(all_prereqs, i, student_mastered, weak_point_id) ==
    IF i > Len(all_prereqs) THEN get_point(weak_point_id)
    ELSE IF all_prereqs[i] \notin student_mastered THEN all_prereqs[i]
    ELSE first_unmastered(all_prereqs, i + 1, student_mastered, weak_point_id)

\* find_weak_point_root_cause walking the closure from its last entry
find_weak_point_root_cause_reversed(weak_point_id, student_mastered) ==
    LET all_prereqs == get_all_prerequisites_recursive(weak_point_id)
    IN  first_unmastered([i \in 1..Len(all_prereqs) |->
                             all_prereqs[Len(all_prereqs) + 1 - i]],
                         1, student_mastered, weak_point_id)

find_weak_point_root_cause_skip(weak_point_id, student_mastered) ==
    first_unmastered(get_all_prerequisites_recursive(weak_point_id), 2,
                     student_mastered, weak_point_id)

find_weak_point_root_cause(weak_point_id, student_mastered) ==
    first_unmastered(get_all_prerequisites_recursive(weak_point_id), 1,
                     student_mastered, weak_point_id)

\* the ids of get_points_by_grade_subject(subject, grade)
get_points_by_grade_subject(subject, grade) ==
    {p \in DOMAIN knowledge_points :
        knowledge_points[p].subject = subject /\ knowledge_points[p].grade = grade}

-----------------------------------------------------------------------------
(* DiagnosisSystem._estimate_grade_level. Levels are counted in half       *)
(* grades: the value 2 * actual_level is computed, so grade g is 2g and    *)
(* g - 0.5 is 2g - 1. mastered_count / total_count is compared with 0.8    *)
(* and 0.5 on the integers: m/t >= 0.8 iff 5m >= 4t, m/t >= 0.5 iff        *)
(* 2m >= t (the float quotient of two small integers is the double         *)
(* nearest the exact quotient, and 4/5 evaluates to the literal 0.8).      *)

\* stats["mastery_rate"] == 0.8
full_credit_exact(mastered_count, total_count) == 5 * mastered_count = 4 * total_count

\* stats["mastery_rate"] >= 0.8
full_credit_strict(mastered_count, total_count) == 5 * mastered_count > 4 * total_count

full_credit(mastered_count, total_count) == 5 * mastered_count >= 4 * total_count

\* stats["mastery_rate"] >= 0.5
half_credit(mastered_count, total_count) == 2 * mastered_count >= total_count

\* the second loop of _estimate_grade_level, from grade on, with the level so far
RECURSIVE level_walk(_, _, _, _, _)
level_walk(mastered_points, subject, target_grade, grade, actual_level) ==
    IF grade > target_grade THEN actual_level
    ELSE LET grade_points == get_points_by_grade_subject(subject, grade)
             mastered_count == Cardinality(grade_points \cap mastered_points)
             total_count == Cardinality(grade_points)
         IN  IF total_count = 0
             THEN level_walk(mastered_points, subject, target_grade, grade + 1,
                             actual_level)
             ELSE IF full_credit(mastered_count, total_count)
             THEN level_walk(mastered_points, subject, target_grade, grade + 1,
                             2 * grade)
             ELSE IF half_credit(mastered_count, total_count)
             THEN level_walk(mastered_points, subject, target_grade, grade + 1,
                             2 * grade - 1)
             ELSE actual_level

estimate_grade_level(mastered_points, subject, target_grade) ==
    level_walk(mastered_points, subject, target_grade, 1, 0)

-----------------------------------------------------------------------------
(* StudentProfile statistics. accuracy_rate is kept in hundredths of a     *)
(* percent: round(x, 2) of a percentage is the nearest multiple of 0.01.   *)

\* round((total - mistakes) / total * 100, 2), times 100
accuracy_rate(total, mistakes) ==
    (20000 * (total - mistakes) + total) \div (2 * total)

\* a record of knowledge_point_stats, last practised days_ago days ago
MkStats(total, mistakes, days_ago) ==
    [total |-> total, mistakes |-> mistakes,
     accuracy_rate |-> accuracy_rate(total, mistakes), last_practice |-> days_ago]

\* the questions of a profile whose questions each name one knowledge point:
\* the sum of the totals of the records st[n], n in S
RECURSIVE QuestionsOf(_, _)
QuestionsOf(st, S) ==
    IF S = {} THEN 0
    ELSE LET n == CHOOSE x \in S : TRUE IN st[n].total + QuestionsOf(st, S \ {n})

RECURSIVE MistakesOf(_, _)
MistakesOf(st, S) ==
    IF S = {} THEN 0
    ELSE LET n == CHOOSE x \in S : TRUE IN st[n].mistakes + MistakesOf(st, S \ {n})

\* StudentProfile.add_exam. A question is [is_mistake, knowledge_points]; the
\* exam record keeps exam_id, total_questions, mistakes, correct, accuracy_rate
\* and knowledge_points (date, source and the question-type statistics are left
\* out, and so is the file that save() writes). last_practice is set to now: 0
\* days ago.

\* "for kp in question.get("knowledge_points", [])" from position j on, on
\* p = [stats, stats_order, total_questions, total_mistakes, exam_record]
RECURSIVE count_knowledge_points(_, _, _, _)
count_knowledge_points(p, kps, j, is_mistake) ==
    IF j > Len(kps) THEN p
    ELSE LET kp == kps[j]
             miss == IF is_mistake THEN 1 ELSE 0
             known == kp \in DOMAIN p.stats
             in_exam == kp \in DOMAIN p.exam_record.knowledge_points
             rec == [total |-> (IF known THEN p.stats[kp].total ELSE 0) + 1,
                     mistakes |-> (IF known THEN p.stats[kp].mistakes ELSE 0) + miss,
                     accuracy_rate |-> IF known THEN p.stats[kp].accuracy_rate ELSE 0,
                     last_practice |-> 0]
             exam_rec ==
                 [total |-> (IF in_exam THEN p.exam_record.knowledge_points[kp].total
                             ELSE 0) + 1,
                  mistakes |-> (IF in_exam
                                THEN p.exam_record.knowledge_points[kp].mistakes
                                ELSE 0) + miss]
         IN  count_knowledge_points(
                 [p EXCEPT
                    !.stats = [n \in DOMAIN p.stats \cup {kp} |->
                                  IF n = kp THEN rec ELSE p.stats[n]],
                    !.stats_order = IF known THEN @ ELSE Append(@, kp),
                    !.exam_record.knowledge_points =
                        [n \in DOMAIN p.exam_record.knowledge_points \cup {kp} |->
                            IF n = kp THEN exam_rec
                            ELSE p.exam_record.knowledge_points[n]]],
                 kps, j + 1, is_mistake)

\* "for question in exam_data.get("questions", [])" from position i on
RECURSIVE count_questions(_, _, _)
count_questions(p, questions, i) ==
    IF i > Len(questions) THEN p
    ELSE LET question == questions[i]
             miss == IF question.is_mistake THEN 1 ELSE 0
             counted ==
                 [p EXCEPT !.total_questions = @ + 1,
                           !.total_mistakes = @ + miss,
                           !.exam_record.mistakes = @ + miss,
                           !.exam_record.correct = @ + (1 - miss)]
         IN  count_questions(
                 count_knowledge_points(counted, question.knowledge_points, 1,
                                        question.is_mistake),
                 questions, i + 1)

\* the loop over knowledge_point_stats that ends add_exam, left out
refresh_accuracy_skipped(st) == st

\* "for kp, stats in self.data["knowledge_point_stats"].items(): if
\* stats["total"] > 0: stats["accuracy_rate"] = round(...)"
refresh_accuracy(st) ==
    [n \in DOMAIN st |->
        IF st[n].total > 0
        THEN [st[n] EXCEPT !.accuracy_rate = accuracy_rate(st[n].total, st[n].mistakes)]
        ELSE st[n]]

\* _update_learning_trend: the entry appended for exam_record
trend_entry(exam_record) ==
    [exam_id |-> exam_record.exam_id,
     accuracy_rate |-> exam_record.accuracy_rate,
     total_questions |-> exam_record.total_questions,
     mistakes |-> exam_record.mistakes]

\* add_exam on the profile p = [stats, stats_order, total_questions,
\* total_mistakes, exams, learning_trend]: the profile after it, with the
\* returned exam record
add_exam(p, questions) ==
    LET exam_record == [exam_id |-> Len(p.exams) + 1,
                        total_questions |-> Len(questions),
                        mistakes |-> 0,
                        correct |-> 0,
                        accuracy_rate |-> 0,
                        knowledge_points |-> << >>]
        counted == count_questions(
                       [stats |-> p.stats, stats_order |-> p.stats_order,
                        total_questions |-> p.total_questions,
                        total_mistakes |-> p.total_mistakes,
                        exam_record |-> exam_record],
                       questions, 1)
        rated == IF counted.exam_record.total_questions > 0
                 THEN [counted.exam_record EXCEPT
                          !.accuracy_rate =
                              accuracy_rate(counted.exam_record.total_questions,
                                            counted.exam_record.total_questions
                                              - counted.exam_record.correct)]
                 ELSE counted.exam_record
    IN  [stats |-> refresh_accuracy(counted.stats),
         stats_order |-> counted.stats_order,
         total_questions |-> counted.total_questions,
         total_mistakes |-> counted.total_mistakes,
         exams |-> Append(p.exams, rated),
         learning_trend |-> Append(p.learning_trend, trend_entry(rated)),
         exam_record |-> rated]

\* the exam that recorded the questions of the knowledge point stats_order[i]:
\* st.total questions that name it, st.mistakes of them mistakes
ExamOfRecord(i) ==
    LET st == stats[stats_order[i]] IN
    [exam_id |-> i,
     total_questions |-> st.total,
     mistakes |-> st.mistakes,
     correct |-> st.total - st.mistakes,
     accuracy_rate |-> accuracy_rate(st.total, st.mistakes),
     knowledge_points |->
         [n \in {stats_order[i]} |-> [total |-> st.total, mistakes |-> st.mistakes]]]

\* the exam that recorded n questions that name no knowledge point, all correct
ExamOfOthers(i, n) ==
    [exam_id |-> i, total_questions |-> n, mistakes |-> 0, correct |-> n,
     accuracy_rate |-> accuracy_rate(n, 0), knowledge_points |-> << >>]

\* the profile was recorded by add_exam: one exam for each knowledge point of
\* the statistics, and one more for the questions that name none
Recorded ==
    LET others == total_questions - QuestionsOf(stats, DOMAIN stats)
        recorded == [i \in 1..Len(stats_order) |-> ExamOfRecord(i)]
                       \o (IF others > 0
                           THEN <<ExamOfOthers(Len(stats_order) + 1, others)>>
                           ELSE << >>)
    IN  /\ total_mistakes = MistakesOf(stats, DOMAIN stats)
        /\ exams = recorded
        /\ learning_trend = [i \in 1..Len(exams) |-> trend_entry(exams[i])]

-----------------------------------------------------------------------------
(* DailyRecommender *)

\* "for point in self.graph.knowledge_points.values(): if ...: ...; break":
\* the first point from position i of the dict on with that name and subject
\* and a grade up to grade, or None
RECURSIVE first_point_named(_, _, _, _)
first_point_named(i, kp_name, subject, grade) ==
    IF i > Len(kp_order) THEN None
    ELSE LET point == knowledge_points[kp_order[i]] IN
         IF point.name = kp_name /\ point.subject = subject /\ point.grade <= grade
         THEN kp_order[i]
         ELSE first_point_named(i + 1, kp_name, subject, grade)

\* list.sort(key=lambda x: x[1]) on the first n entries: stable, ascending
RECURSIVE sort_by_accuracy(_, _)
sort_by_accuracy(pairs, n) ==
    IF n = 0 THEN << >>
    ELSE LET sorted == sort_by_accuracy(pairs, n - 1)
             x == pairs[n]
             k == Cardinality({j \in 1..Len(sorted) : sorted[j][2] <= x[2]})
         IN  SubSeq(sorted, 1, k) \o <<x>> \o SubSeq(sorted, k + 1, Len(sorted))

\* the loop of _get_weak_points over the stats dict from position i on
RECURSIVE collect_weak_points(_, _, _)
collect_weak_points(i, subject, grade) ==
    IF i > Len(stats_order) THEN << >>
    ELSE LET kp_name == stats_order[i]
             st == stats[kp_name]
             point == first_point_named(1, kp_name, subject, grade)
         IN  (IF st.accuracy_rate < 6000 /\ st.total >= 2 /\ point /= None
              THEN <<<<point, st.accuracy_rate>>>> ELSE << >>)
             \o collect_weak_points(i + 1, subject, grade)

\* _get_weak_points: pairs <<point, accuracy_rate>>, lowest accuracy first
get_weak_points(subject, grade) ==
    LET weak_points == collect_weak_points(1, subject, grade)
    IN  sort_by_accuracy(weak_points, Len(weak_points))

\* last_practice is kept as the age of the timestamp in whole days,
\* (datetime.now() - last_date).days, of a timestamp that is not a whole number of
\* days old: last_date < now - 7 days iff that age is at least 7

\* the loop of _get_not_practiced_recently over the stats dict from position i on
RECURSIVE collect_not_practiced(_, _, _, _)
collect_not_practiced(i, subject, grade, days) ==
    IF i > Len(stats_order) THEN << >>
    ELSE LET kp_name == stats_order[i]
             point == first_point_named(1, kp_name, subject, grade)
         IN  (IF stats[kp_name].last_practice >= days /\ point /= None
              THEN <<point>> ELSE << >>)
             \o collect_not_practiced(i + 1, subject, grade, days)

get_not_practiced_recently(subject, grade) == collect_not_practiced(1, subject, grade, 7)

\* "for review_day in review_days: if abs(days_passed - review_day) <= 1"
review_hits(days_passed) ==
    SelectSeq(<<7, 15, 30>>,
              LAMBDA review_day : days_passed - review_day \in {-1, 0, 1})

\* the loop of _get_needs_review over the stats dict from position i on
RECURSIVE collect_needs_review(_, _, _)
collect_needs_review(i, subject, grade) ==
    IF i > Len(stats_order) THEN << >>
    ELSE LET kp_name == stats_order[i]
             point == first_point_named(1, kp_name, subject, grade)
             hits == review_hits(stats[kp_name].last_practice)
         IN  (IF point /= None THEN [k \in 1..Len(hits) |-> point] ELSE << >>)
             \o collect_needs_review(i + 1, subject, grade)

get_needs_review(subject, grade) == collect_needs_review(1, subject, grade)

\* the mastered set of _find_root_causes: every point whose name has a record
\* with accuracy_rate >= 80
recommender_mastered ==
    {p \in DOMAIN knowledge_points :
        \E kp_name \in DOMAIN stats :
            stats[kp_name].accuracy_rate >= 8000 /\ knowledge_points[p].name = kp_name}

\* the loop of _find_root_causes over weak_points[i..n]
RECURSIVE root_cause_loop(_, _, _, _, _)
root_cause_loop(weak_points, i, n, mastered, root_causes) ==
    IF i > n THEN root_causes
    ELSE LET root_cause == find_weak_point_root_cause(weak_points[i][1], mastered)
         IN  root_cause_loop(weak_points, i + 1, n, mastered,
                 IF root_cause /= None /\ root_cause \notin Range(root_causes)
                 THEN Append(root_causes, root_cause) ELSE root_causes)

\* _find_root_causes keeping only the root causes that are not weak points
find_root_causes_prerequisites_only(weak_points) ==
    SelectSeq(root_cause_loop(weak_points, 1,
                              IF Len(weak_points) < 5 THEN Len(weak_points) ELSE 5,
                              recommender_mastered, << >>),
              LAMBDA r : \A i \in 1..Len(weak_points) : weak_points[i][1] /= r)

find_root_causes(weak_points) ==
    root_cause_loop(weak_points, 1, IF Len(weak_points) < 5 THEN Len(weak_points) ELSE 5,
                    recommender_mastered, << >>)

\* _create_weakness_plan with its knowledge-point list left out
create_weakness_plan_nolist(weak_points) ==
    [plan_id |-> "weakness_breakthrough",
     name |-> "weakness breakthrough",
     emoji |-> "target",
     description |-> "practise the weakest points, 5 questions each",
     total_questions |-> 15,
     estimated_time |-> 20,
     difficulty |-> "easy to medium",
     goal |-> "consolidate weak points",
     priority |-> "high"]

\* the plans are the dicts of the code with their keys; the texts of name, emoji,
\* description, difficulty, goal and priority are rendered in English
create_weakness_plan(weak_points) ==
    LET n == IF Len(weak_points) < 3 THEN Len(weak_points) ELSE 3
    IN  [plan_id |-> "weakness_breakthrough",
         name |-> "weakness breakthrough",
         emoji |-> "target",
         description |-> "practise the weakest points, 5 questions each",
         knowledge_points |->
             [i \in 1..n |->
                 [id |-> weak_points[i][1],
                  name |-> knowledge_points[weak_points[i][1]].name,
                  grade |-> knowledge_points[weak_points[i][1]].grade,
                  current_accuracy |->
                      weak_points[IndexOf([j \in 1..Len(weak_points) |-> weak_points[j][1]],
                                          weak_points[i][1])][2],
                  questions_count |-> 5]],
         total_questions |-> 15,
         estimated_time |-> 20,
         difficulty |-> "easy to medium",
         goal |-> "consolidate weak points",
         priority |-> "high"]

create_comprehensive_plan(subject, grade) ==
    LET all_points == get_points_by_grade_subject(subject, grade)
    IN  [plan_id |-> "comprehensive_review",
         name |-> "comprehensive review",
         emoji |-> "books",
         description |-> "cover the main points of the grade",
         knowledge_points_count |->
             IF Cardinality(all_points) < 10 THEN Cardinality(all_points) ELSE 10,
         total_questions |-> 20,
         estimated_time |-> 30,
         difficulty |-> "medium",
         goal |-> "review everything",
         priority |-> "medium"]

create_quick_practice_plan(subject, grade) ==
    [plan_id |-> "quick_practice",
     name |-> "quick practice",
     emoji |-> "flash",
     description |-> "10 selected questions",
     total_questions |-> 10,
     estimated_time |-> 10,
     difficulty |-> "easy",
     goal |-> "daily practice",
     priority |-> "low"]

create_remedial_plan(root_causes) ==
    [plan_id |-> "remedial_study",
     name |-> "foundation remediation",
     emoji |-> "wrench",
     description |-> "go back to the grade of the root cause",
     knowledge_points |->
         <<[id |-> root_causes[1],
            name |-> knowledge_points[root_causes[1]].name,
            grade |-> knowledge_points[root_causes[1]].grade,
            questions_count |-> 15]>>,
     total_questions |-> 15,
     estimated_time |-> 20,
     difficulty |-> "easy",
     goal |-> "build the foundation",
     priority |-> "high",
     is_remedial |-> TRUE]

\* recommend_daily_practice with the remedial plan appended before the quick one
recommend_daily_practice_misordered(subject, grade) ==
    LET weak_points == get_weak_points(subject, grade)
        root_causes == find_root_causes(weak_points)
    IN  (IF weak_points /= << >> THEN <<create_weakness_plan(weak_points)>> ELSE << >>)
        \o <<create_comprehensive_plan(subject, grade)>>
        \o (IF root_causes /= << >> THEN <<create_remedial_plan(root_causes)>> ELSE << >>)
        \o <<create_quick_practice_plan(subject, grade)>>

\* recommend_daily_practice without the "if root_causes" guard: the value of
\* _create_remedial_plan (None without a root cause) is appended in any case
recommend_daily_practice_unguarded(subject, grade) ==
    LET weak_points == get_weak_points(subject, grade)
        root_causes == find_root_causes(weak_points)
    IN  (IF weak_points /= << >> THEN <<create_weakness_plan(weak_points)>> ELSE << >>)
        \o <<create_comprehensive_plan(subject, grade)>>
        \o <<create_quick_practice_plan(subject, grade)>>
        \o <<IF root_causes /= << >> THEN create_remedial_plan(root_causes) ELSE None>>

\* not_practiced_recently and needs_review are computed and printed, and no plan
\* reads them
recommend_daily_practice(subject, grade) ==
    LET weak_points == get_weak_points(subject, grade)
        not_practiced_recently == get_not_practiced_recently(subject, grade)
        needs_review == get_needs_review(subject, grade)
        root_causes == find_root_causes(weak_points)
    IN  (IF weak_points /= << >> THEN <<create_weakness_plan(weak_points)>> ELSE << >>)
        \o <<create_comprehensive_plan(subject, grade)>>
        \o <<create_quick_practice_plan(subject, grade)>>
        \o (IF root_causes /= << >> THEN <<create_remedial_plan(root_causes)>> ELSE << >>)

-----------------------------------------------------------------------------
(* DiagnosisSystem *)

\* "for point in self.graph.knowledge_points.values(): if point.name == kp_name
\* and point.subject == subject: mastered.add(point.id); break": the first
\* point from position i of the dict on with that name and subject, or None
RECURSIVE first_point_of_subject(_, _, _)
first_point_of_subject(i, kp_name, subject) ==
    IF i > Len(kp_order) THEN None
    ELSE LET point == knowledge_points[kp_order[i]] IN
         IF point.name = kp_name /\ point.subject = subject
         THEN kp_order[i]
         ELSE first_point_of_subject(i + 1, kp_name, subject)

\* _analyze_mastered_points: the set of mastered ids
analyze_mastered_points(subject) ==
    {first_point_of_subject(1, kp_name, subject) :
        kp_name \in {n \in DOMAIN stats :
                        stats[n].accuracy_rate >= 8000 /\ stats[n].total >= 3}}
    \ {None}

\* _get_point_accuracy, in hundredths of a percent
get_point_accuracy(pid) ==
    IF get_point(pid) = None THEN 10000
    ELSE IF knowledge_points[pid].name \in DOMAIN stats
         THEN stats[knowledge_points[pid].name].accuracy_rate
         ELSE 10000

\* the loop of _find_weak_points over the stats dict from position i on
RECURSIVE collect_diagnosis_weak_points(_, _, _)
collect_diagnosis_weak_points(i, subject, grade) ==
    IF i > Len(stats_order) THEN << >>
    ELSE LET kp_name == stats_order[i]
             st == stats[kp_name]
             point == first_point_named(1, kp_name, subject, grade)
         IN  (IF st.accuracy_rate < 6000 /\ st.total >= 3 /\ point /= None
              THEN <<point>> ELSE << >>)
             \o collect_diagnosis_weak_points(i + 1, subject, grade)

\* _find_weak_points: the list of weak points, sorted by _get_point_accuracy
find_weak_points(subject, grade) ==
    LET weak_points == collect_diagnosis_weak_points(1, subject, grade)
        keyed == [i \in 1..Len(weak_points) |->
                     <<weak_points[i], get_point_accuracy(weak_points[i])>>]
        sorted == sort_by_accuracy(keyed, Len(keyed))
    IN  [i \in 1..Len(sorted) |-> sorted[i][1]]

\* the loop of diagnose_student over weak_points[i..] without the test
\* "root_cause.id not in [r.id for r in root_causes]"
RECURSIVE diagnosis_root_causes_repeating(_, _, _, _), diagnosis_root_causes(_, _, _, _)
diagnosis_root_causes_repeating(weak_points, i, mastered_points, root_causes) ==
    IF i > Len(weak_points) THEN root_causes
    ELSE LET root_cause == find_weak_point_root_cause(weak_points[i], mastered_points)
         IN  diagnosis_root_causes_repeating(weak_points, i + 1, mastered_points,
                 IF root_cause /= None
                 THEN Append(root_causes, root_cause) ELSE root_causes)

\* the loop of diagnose_student over weak_points[i..]
diagnosis_root_causes(weak_points, i, mastered_points, root_causes) ==
    IF i > Len(weak_points) THEN root_causes
    ELSE LET root_cause == find_weak_point_root_cause(weak_points[i], mastered_points)
         IN  diagnosis_root_causes(weak_points, i + 1, mastered_points,
                 IF root_cause /= None /\ root_cause \notin Range(root_causes)
                 THEN Append(root_causes, root_cause) ELSE root_causes)

\* "if actual_level < target_grade - 0.5", the level in half grades
below_target_inclusive(actual_level, target_grade) == actual_level <= 2 * target_grade - 1

below_target(actual_level, target_grade) == actual_level < 2 * target_grade - 1

\* _generate_diagnosis_recommendations; from_grade is int(actual_level + 1)
generate_diagnosis_recommendations(root_causes, weak_points, actual_level, target_grade) ==
    (IF root_causes /= << >>
     THEN <<[priority |-> "high", type |-> "foundation_remediation",
             knowledge_point |-> knowledge_points[root_causes[1]].name,
             grade |-> knowledge_points[root_causes[1]].grade]>>
     ELSE << >>)
    \o (IF below_target(actual_level, target_grade)
        THEN <<[priority |-> "high", type |-> "grade_step_back",
                from_grade |-> (actual_level + 2) \div 2]>>
        ELSE << >>)
    \o (IF weak_points /= << >>
        THEN <<[priority |-> "medium", type |-> "targeted_practice",
                knowledge_point |-> knowledge_points[weak_points[1]].name]>>
        ELSE << >>)

\* the first n entries of a list: list[:n]
Take(s, n) == SubSeq(s, 1, IF Len(s) < n THEN Len(s) ELSE n)

\* the report of diagnose_student, with the size of the target grade in mastered_count
diagnosis_report_miscounted(subject, target_grade, target_points, mastered_points, weak_points, root_causes, actual_grade_level) ==
    [subject |-> subject,
     target_grade |-> target_grade,
     actual_grade_level |-> actual_grade_level,
     mastered_count |-> Cardinality(target_points),
     weak_count |-> Len(weak_points),
     root_causes |-> Take(root_causes, 10),
     weak_points |-> Take(weak_points, 10),
     recommendations |->
         generate_diagnosis_recommendations(root_causes, weak_points,
                                            actual_grade_level, target_grade)]

\* the report of diagnose_student; root_causes and weak_points list the ids of
\* their entries (name, grade and accuracy are those of the point)
diagnosis_report(subject, target_grade, target_points, mastered_points, weak_points, root_causes, actual_grade_level) ==
    [subject |-> subject,
     target_grade |-> target_grade,
     actual_grade_level |-> actual_grade_level,
     mastered_count |-> Cardinality(mastered_points),
     weak_count |-> Len(weak_points),
     root_causes |-> Take(root_causes, 10),
     weak_points |-> Take(weak_points, 10),
     recommendations |->
         generate_diagnosis_recommendations(root_causes, weak_points,
                                            actual_grade_level, target_grade)]

diagnose_student(subject, target_grade) ==
    LET target_points == get_points_by_grade_subject(subject, target_grade) IN
    IF target_points = {}
    THEN [error |-> "no knowledge points configured"]
    ELSE LET mastered_points == analyze_mastered_points(subject)
             weak_points == find_weak_points(subject, target_grade)
             root_causes == diagnosis_root_causes(weak_points, 1, mastered_points, << >>)
             actual_grade_level ==
                 estimate_grade_level(mastered_points, subject, target_grade)
         IN  diagnosis_report(subject, target_grade, target_points, mastered_points,
                              weak_points, root_causes, actual_grade_level)

-----------------------------------------------------------------------------
(* Reference definitions on the corpus, independent of the traversal *)

\* the defined points that p names as direct prerequisites
DirectPrereqs(p) ==
    IF p \in DOMAIN knowledge_points
    THEN Range(knowledge_points[p].prerequisites) \cap DOMAIN knowledge_points
    ELSE {}

Grow(S) == S \cup UNION {DirectPrereqs(p) : p \in S}

RECURSIVE ReachFrom(_)
ReachFrom(S) == IF Grow(S) = S THEN S ELSE ReachFrom(Grow(S))

\* every defined point reachable from x along one or more prerequisite entries
Ancestors(x) == ReachFrom(DirectPrereqs(x))

Acyclic == \A p \in DOMAIN knowledge_points : p \notin Ancestors(p)

IsDiamond ==
    /\ DOMAIN knowledge_points = PointIds
    /\ knowledge_points["D"].prerequisites \in {<<"B", "C">>, <<"C", "B">>}
    /\ knowledge_points["B"].prerequisites = <<"A">>
    /\ knowledge_points["C"].prerequisites = <<"A">>
    /\ knowledge_points["A"].prerequisites = <<>>

-----------------------------------------------------------------------------
(* Initial states *)

NoProfile ==
    /\ stats = << >>
    /\ stats_order = << >>
    /\ total_questions = 0
    /\ total_mistakes = 0
    /\ exams = << >>
    /\ learning_trend = << >>

NoCall ==
    /\ op = "none"
    /\ args = << >>
    /\ ret = None

DfsIdle ==
    /\ point_id = None
    /\ visited = {}
    /\ result = << >>
    /\ stack = << >>
    /\ dfs_pc = "idle"

InitCorpus(k) ==
    /\ knowledge_points \in {GraphOf(m) : m \in PrereqMaps(k)}
    /\ kp_order = IdOrder
    /\ NoProfile
    /\ Constructed
    /\ NoCall
    /\ DfsIdle

-----------------------------------------------------------------------------
(* get_all_prerequisites_recursive as one call *)

Call_get_all_prerequisites_recursive ==
    \E x \in AllIds :
        /\ op' = "get_all_prerequisites_recursive"
        /\ args' = [point_id |-> x]
        /\ ret' = get_all_prerequisites_recursive(x)
        /\ UNCHANGED <<graphVars, profileVars, dfsVars>>

InitClosure == InitCorpus(MaxEdges)

NextClosure == Call_get_all_prerequisites_recursive

SpecClosure == InitClosure /\ [][NextClosure]_vars

-----------------------------------------------------------------------------
(* get_all_prerequisites_recursive step by step: one action per call of    *)
(* dfs made by the loop, one per return of dfs                             *)

Top == stack[Len(stack)]

\* the call dfs(pid) up to its loop: guard, visited.add, get_point
DfsEnter(pid, stk) ==
    IF is_visited(pid, visited)
    THEN /\ visited' = visited
         /\ stack' = stk
    ELSE /\ visited' = visited \cup {pid}
         /\ stack' = IF get_point(pid) = None THEN stk
                     ELSE Append(stk, [pid |-> pid, idx |-> 1])

\* "visited = set()" with the set of the traversal before kept instead
visited_for_call_shared(old_visited) == old_visited

\* "visited = set()": every call works on a set of its own
visited_for_call(old_visited) == {}

\* get_all_prerequisites_recursive(x) up to the loop of its first dfs(x)
StartTraversal(x) ==
    LET v0 == visited_for_call(visited) IN
    /\ dfs_pc = "idle"
    /\ point_id' = x
    /\ result' = << >>
    /\ IF is_visited(x, v0)
       THEN visited' = v0 /\ stack' = << >> /\ dfs_pc' = "done"
       ELSE /\ visited' = v0 \cup {x}
            /\ IF get_point(x) = None
               THEN stack' = << >> /\ dfs_pc' = "done"
               ELSE stack' = <<[pid |-> x, idx |-> 1]>> /\ dfs_pc' = "running"

DfsStart ==
    \E x \in AllIds :
        /\ StartTraversal(x)
        /\ op' = "none"
        /\ args' = << >>
        /\ ret' = None
        /\ UNCHANGED <<graphVars, profileVars>>

\* "for prereq_id in point.prerequisites: dfs(prereq_id)": one iteration
DfsVisit ==
    /\ dfs_pc = "running"
    /\ Len(stack) < MaxDepth
    /\ Top.idx <= Len(knowledge_points[Top.pid].prerequisites)
    /\ DfsEnter(knowledge_points[Top.pid].prerequisites[Top.idx],
                [stack EXCEPT ![Len(stack)].idx = @ + 1])
    /\ UNCHANGED <<graphVars, profileVars, callVars, point_id, result, dfs_pc>>

\* the loop of the top frame is over: append and return
DfsFinish ==
    /\ dfs_pc = "running"
    /\ Top.idx > Len(knowledge_points[Top.pid].prerequisites)
    /\ result' = dfs_append(point_id, Top.pid, result)
    /\ stack' = SubSeq(stack, 1, Len(stack) - 1)
    /\ dfs_pc' = IF Len(stack) = 1 THEN "done" ELSE "running"
    /\ UNCHANGED <<graphVars, profileVars, callVars, point_id, visited>>

\* "return result"; the visited set of the call is left as it is
DfsReturn ==
    /\ dfs_pc = "done"
    /\ op' = "get_all_prerequisites_recursive"
    /\ args' = [point_id |-> point_id]
    /\ ret' = result
    /\ point_id' = None
    /\ visited' = visited
    /\ result' = << >>
    /\ stack' = << >>
    /\ dfs_pc' = "idle"
    /\ UNCHANGED <<graphVars, profileVars>>

InitDfs == InitCorpus(SmallEdges)

NextDfs == DfsStart \/ DfsVisit \/ DfsFinish \/ DfsReturn

\* a call that has started runs on: the interpreter executes dfs to its end
SpecDfs == InitDfs /\ [][NextDfs]_vars /\ WF_vars(DfsVisit \/ DfsFinish)

\* the step-wise traversal returns what the one-call traversal returns
DfsAgrees ==
    dfs_pc = "done" => result = get_all_prerequisites_recursive(point_id)

-----------------------------------------------------------------------------
(* The queries built on the traversal, each as one call on a fresh graph;  *)
(* find_weak_point_root_cause may be asked again for the same point once   *)
(* the student has mastered more.                                          *)

Call_get_prerequisites ==
    /\ op = "none"
    /\ \E x \in AllIds :
        /\ op' = "get_prerequisites"
        /\ args' = [point_id |-> x]
        /\ ret' = get_prerequisites(x)
        /\ UNCHANGED <<graphVars, profileVars, dfsVars>>

Call_check_readiness ==
    /\ op = "none"
    /\ \E x \in AllIds, M \in SUBSET AllIds :
        /\ op' = "check_readiness"
        /\ args' = [point_id |-> x, mastered_points |-> M]
        /\ ret' = check_readiness(x, M)
        /\ UNCHANGED <<graphVars, profileVars, dfsVars>>

Call_get_learning_path ==
    /\ op = "none"
    /\ \E f \in AllIds, t \in AllIds :
        /\ op' = "get_learning_path"
        /\ args' = [from_point_id |-> f, to_point_id |-> t]
        /\ ret' = get_learning_path(f, t)
        /\ UNCHANGED <<graphVars, profileVars, dfsVars>>

Call_find_weak_point_root_cause ==
    \E w \in AllIds, M \in SUBSET PointIds :
        /\ \/ op = "none"
           \/ /\ op = "find_weak_point_root_cause"
              /\ args.weak_point_id = w
              /\ args.student_mastered \subseteq M
              /\ args.student_mastered /= M
        /\ op' = "find_weak_point_root_cause"
        /\ args' = [weak_point_id |-> w, student_mastered |-> M]
        /\ ret' = find_weak_point_root_cause(w, M)
        /\ UNCHANGED <<graphVars, profileVars, dfsVars>>

InitQuery == InitCorpus(QueryEdges)

NextQuery ==
    \/ Call_get_prerequisites
    \/ Call_check_readiness
    \/ Call_get_learning_path
    \/ Call_find_weak_point_root_cause

SpecQuery == InitQuery /\ [][NextQuery]_vars

-----------------------------------------------------------------------------
(* C1: in an acyclic corpus, get_all_prerequisites_recursive(X) of a       *)
(* defined point X lists every transitive prerequisite of X exactly once,  *)
(* each after all of its own prerequisites, and never X; in the diamond    *)
(* D<-{B,C}, B<-A, C<-A the result for D is [A,B,C] or [A,C,B].            *)
C1_ClosureCorrect ==
    (/\ op = "get_all_prerequisites_recursive"
     /\ args.point_id \in DOMAIN knowledge_points
     /\ Acyclic)
    => /\ Range(ret) = Ancestors(args.point_id)
       /\ NoDup(ret)
       /\ args.point_id \notin Range(ret)
       /\ \A i \in 1..Len(ret) : \A q \in DirectPrereqs(ret[i]) :
              IndexOf(ret, q) >= 1 /\ IndexOf(ret, q) < i
       /\ (IsDiamond /\ args.point_id = "D"
              => ret \in {<<"A", "B", "C">>, <<"A", "C", "B">>})

C1_Witness ==
    /\ op = "get_all_prerequisites_recursive"
    /\ IsDiamond
    /\ args.point_id = "D"
    /\ ret = <<"A", "B", "C">>

-----------------------------------------------------------------------------
(* C2: in any corpus, with cycles, self-loops and dangling ids,            *)
(* get_all_prerequisites_recursive(X) terminates (a running call reaches   *)
(* its return and the recursion is never deeper than the number of         *)
(* points) and returns a list with no point twice and without X.           *)
C2_Terminates ==
    /\ [](Len(stack) <= Cardinality(PointIds))
    /\ [](dfs_pc = "done" => NoDup(result) /\ point_id \notin Range(result))
    /\ (dfs_pc = "running" ~> dfs_pc = "done")

C2_Witness ==
    /\ dfs_pc = "done"
    /\ ~Acyclic
    /\ point_id \in Ancestors(point_id)
    /\ Dangling \in visited
    /\ Len(result) >= 1

-----------------------------------------------------------------------------
(* C3: find_weak_point_root_cause(W, M) returns the first element of       *)
(* get_all_prerequisites_recursive(W) whose id is not in M; when there is  *)
(* none (all in M, or the closure is empty) it returns the point W itself  *)
(* (get_point(W): None for a W the graph does not define).                 *)
C3_RootCauseFirstUnmastered ==
    op = "find_weak_point_root_cause" =>
        LET all == get_all_prerequisites_recursive(args.weak_point_id)
            un == {i \in 1..Len(all) : all[i] \notin args.student_mastered}
        IN  IF un = {}
            THEN ret = (IF args.weak_point_id \in DOMAIN knowledge_points
                        THEN args.weak_point_id ELSE None)
            ELSE \E i \in un : ret = all[i] /\ \A j \in un : i <= j

C3_Witness ==
    /\ op = "find_weak_point_root_cause"
    /\ Len(get_all_prerequisites_recursive(args.weak_point_id)) = 2
    /\ get_all_prerequisites_recursive(args.weak_point_id)[1] \in args.student_mastered
    /\ ret = get_all_prerequisites_recursive(args.weak_point_id)[2]

-----------------------------------------------------------------------------
(* C4: root-cause monotonicity. For a defined point X and M' a subset of   *)
(* M, the position of find_weak_point_root_cause(X, M) in closure(X)       *)
(* followed by X is not before that of find_weak_point_root_cause(X, M').  *)

\* position of r in closure(x) followed by x
RootCausePos(x, r) == IndexOf(Append(get_all_prerequisites_recursive(x), x), r)

C4_RootCauseMonotone ==
    [][(/\ op = "find_weak_point_root_cause"
        /\ op' = "find_weak_point_root_cause"
        /\ args.weak_point_id \in DOMAIN knowledge_points
        /\ args'.weak_point_id = args.weak_point_id
        /\ args.student_mastered \subseteq args'.student_mastered)
       => /\ RootCausePos(args.weak_point_id, ret) >= 1
          /\ RootCausePos(args.weak_point_id, ret')
                >= RootCausePos(args.weak_point_id, ret)]_vars

C4_Witness ==
    /\ op = "find_weak_point_root_cause"
    /\ args.weak_point_id \in DOMAIN knowledge_points
    /\ \E Mp \in SUBSET args.student_mastered :
          /\ Mp /= args.student_mastered
          /\ RootCausePos(args.weak_point_id,
                          find_weak_point_root_cause(args.weak_point_id, Mp))
                < RootCausePos(args.weak_point_id, ret)

-----------------------------------------------------------------------------
(* C5 as stated: check_readiness(X, M) is ready iff X is defined and every *)
(* id in X's prerequisites list is in M.                                   *)
C5_ReadyIffAllListedIdsMastered ==
    op = "check_readiness" =>
        (ret.ready <=>
            /\ args.point_id \in DOMAIN knowledge_points
            /\ Range(knowledge_points[args.point_id].prerequisites)
                  \subseteq args.mastered_points)

(* C5, amended: check_readiness(X, M) is ready iff X is defined and every  *)
(* id in X's direct prerequisites list that resolves to a point of the     *)
(* graph is in M (dangling ids and transitive prerequisites are not        *)
(* consulted); for an X not in the graph it returns ready = FALSE.         *)
C5_ReadyIffResolvedPrereqsMastered ==
    op = "check_readiness" =>
        /\ ret.ready <=>
              /\ args.point_id \in DOMAIN knowledge_points
              /\ DirectPrereqs(args.point_id) \subseteq args.mastered_points
        /\ args.point_id \notin DOMAIN knowledge_points => ret.ready = FALSE

C5_Witness ==
    /\ op = "check_readiness"
    /\ ret.ready
    /\ Dangling \in Range(knowledge_points[args.point_id].prerequisites)
    /\ Dangling \notin args.mastered_points
    /\ DirectPrereqs(args.point_id) /= {}

-----------------------------------------------------------------------------
(* C6: get_learning_path(F, T) for a defined T is the suffix of            *)
(* get_all_prerequisites_recursive(T) from the first occurrence of F       *)
(* (inclusive) followed by T; when F is not in that closure it is [T].     *)
C6_LearningPathSuffix ==
    (op = "get_learning_path" /\ args.to_point_id \in DOMAIN knowledge_points) =>
        LET all == get_all_prerequisites_recursive(args.to_point_id)
            k == IndexOf(all, args.from_point_id)
        IN  ret = IF k = 0 THEN <<args.to_point_id>>
                  ELSE Append(SubSeq(all, k, Len(all)), args.to_point_id)

C6_Witness ==
    /\ op = "get_learning_path"
    /\ Len(get_all_prerequisites_recursive(args.to_point_id)) = 2
    /\ Len(ret) = 2
    /\ ret[1] = args.from_point_id
    /\ ret[2] = args.to_point_id

-----------------------------------------------------------------------------
(* Grade-level estimation on corpora of MATH points without prerequisites: *)
(* each grade 1..MaxGrade has no point or PointsPerGrade points, and one   *)
(* CHINESE point sits in grade 1. Only the number of mastered points of a  *)
(* grade matters, so the mastered set holds the first points of each       *)
(* grade, and the CHINESE point.                                           *)

GradePointId(g, i) == "g" \o ToString(g) \o "p" \o ToString(i)

OtherSubjectId == "chinese1"

GradeSizes == {0, PointsPerGrade}

GradeCorpusIds(sizes) ==
    {GradePointId(g, i) : g \in 1..MaxGrade, i \in 1..PointsPerGrade}
    \cap UNION {{GradePointId(g, i) : i \in 1..sizes[g]} : g \in 1..MaxGrade}

GradeCorpus(sizes) ==
    [p \in GradeCorpusIds(sizes) \cup {OtherSubjectId} |->
        IF p = OtherSubjectId THEN MkPoint(p, p, "CHINESE", 1, << >>)
        ELSE LET g == CHOOSE h \in 1..MaxGrade :
                        \E i \in 1..PointsPerGrade : p = GradePointId(h, i)
             IN  MkPoint(p, p, "MATH", g, << >>)]

\* load order of the MATH points, grade by grade from grade g on (the CHINESE
\* point is loaded after them)
RECURSIVE GradeCorpusOrder(_, _)
GradeCorpusOrder(sizes, g) ==
    IF g > MaxGrade THEN << >>
    ELSE [i \in 1..sizes[g] |-> GradePointId(g, i)] \o GradeCorpusOrder(sizes, g + 1)

\* the first counts[g] points of every grade g, and the CHINESE point
FirstMastered(counts) ==
    UNION {{GradePointId(g, i) : i \in 1..counts[g]} : g \in 1..MaxGrade}
    \cup {OtherSubjectId}

InitEstimate ==
    /\ \E sizes \in [1..MaxGrade -> GradeSizes] :
          /\ knowledge_points = GradeCorpus(sizes)
          /\ kp_order = GradeCorpusOrder(sizes, 1) \o <<OtherSubjectId>>
    /\ NoProfile
    /\ Constructed
    /\ NoCall
    /\ DfsIdle

Call_estimate_grade_level ==
    /\ op = "none"
    /\ \E counts \in {c \in [1..MaxGrade -> 0..PointsPerGrade] :
                        \A g \in 1..MaxGrade :
                            c[g] = 0 \/ GradePointId(g, 1) \in DOMAIN knowledge_points},
          target \in 1..MaxGrade :
           /\ op' = "_estimate_grade_level"
           /\ args' = [mastered_points |-> FirstMastered(counts), subject |-> "MATH",
                       target_grade |-> target]
           /\ ret' = estimate_grade_level(FirstMastered(counts), "MATH", target)
    /\ UNCHANGED <<graphVars, profileVars, dfsVars>>

NextEstimate == Call_estimate_grade_level

SpecEstimate == InitEstimate /\ [][NextEstimate]_vars

\* number of MATH points of grade g, and of those in the mastered set of the call
TotalAt(g) == Cardinality(get_points_by_grade_subject("MATH", g))

MasteredAt(g) ==
    Cardinality({p \in DOMAIN knowledge_points :
                    /\ knowledge_points[p].subject = "MATH"
                    /\ knowledge_points[p].grade = g
                    /\ p \in args.mastered_points})

\* the mastery rate of grade g is exactly n/d
RateIs(g, n, d) == TotalAt(g) > 0 /\ d * MasteredAt(g) = n * TotalAt(g)

RateAtLeast(g, n, d) == TotalAt(g) > 0 /\ d * MasteredAt(g) >= n * TotalAt(g)

-----------------------------------------------------------------------------
(* C7: the grade walk as the claim states it: ascending over the grades    *)
(* 1..target_grade that have points; rate >= 0.8 sets the level to the     *)
(* grade and goes on; 0.5 <= rate < 0.8 sets it to grade - 0.5 and stops;  *)
(* rate < 0.5 stops and leaves the level. The estimate is that walk's      *)
(* level (in half grades).                                                 *)
RECURSIVE StoppingWalk(_, _, _)
StoppingWalk(target, g, level) ==
    IF g > target THEN level
    ELSE IF TotalAt(g) = 0 THEN StoppingWalk(target, g + 1, level)
    ELSE IF RateAtLeast(g, 4, 5) THEN StoppingWalk(target, g + 1, 2 * g)
    ELSE IF RateAtLeast(g, 1, 2) THEN 2 * g - 1
    ELSE level

C7_HalfCreditStops ==
    op = "_estimate_grade_level" => ret = StoppingWalk(args.target_grade, 1, 0)

-----------------------------------------------------------------------------
(* C8: with the rate of grades 1, 2 and 3 exactly 0.8 and that of grade 4  *)
(* 0, target grade 4, the estimate is 3.0; with grades 1 and 2 at 1.0 and  *)
(* grade 3 at 0.6, target grade 3, it is 2.5 (6 and 5 half grades).        *)
C8_Boundaries ==
    op = "_estimate_grade_level" =>
        /\ (/\ args.target_grade = 4
            /\ RateIs(1, 4, 5) /\ RateIs(2, 4, 5) /\ RateIs(3, 4, 5)
            /\ RateIs(4, 0, 1))
           => ret = 6
        /\ (/\ args.target_grade = 3
            /\ RateIs(1, 1, 1) /\ RateIs(2, 1, 1)
            /\ RateIs(3, 3, 5))
           => ret = 5

C8_Witness ==
    /\ op = "_estimate_grade_level"
    /\ args.target_grade = 4
    /\ RateIs(1, 4, 5) /\ RateIs(2, 4, 5) /\ RateIs(3, 4, 5)
    /\ RateIs(4, 0, 1)
    /\ ret = 6

C8_WitnessHalf ==
    /\ op = "_estimate_grade_level"
    /\ args.target_grade = 3
    /\ RateIs(1, 1, 1) /\ RateIs(2, 1, 1)
    /\ RateIs(3, 3, 5)
    /\ ret = 5

-----------------------------------------------------------------------------
(* The recommender on a curriculum of three MATH points of grades 1, 2, 3  *)
(* and one CHINESE point that shares the display name of the grade 2 MATH  *)
(* point, loaded in that order, with any prerequisite lists of at most     *)
(* RecEdges entries; the profile holds, for any of the three display       *)
(* names, a record of 1..MaxTotal attempts and 0..total mistakes,          *)
(* practised today.                                                        *)

RecName == [A |-> "na", B |-> "nb", C |-> "nc", D |-> "nb"]
RecSubject == [A |-> "MATH", B |-> "MATH", C |-> "MATH", D |-> "CHINESE"]
RecGrade == [A |-> 1, B |-> 2, C |-> 3, D |-> 2]

RecCorpus(m) ==
    [p \in PointIds |-> MkPoint(p, RecName[p], RecSubject[p], RecGrade[p], m[p])]

ProfileNames == <<"na", "nb", "nc">>

StatsRecords ==
    {MkStats(t, m, 0) : t \in 1..MaxTotal, m \in 0..MaxTotal} \cap
    UNION {{MkStats(t, m, 0) : m \in 0..t} : t \in 1..MaxTotal}

Profiles ==
    UNION {[names -> StatsRecords] : names \in SUBSET Range(ProfileNames)}

InitRecommend ==
    /\ knowledge_points \in {RecCorpus(m) : m \in PrereqMaps(RecEdges)}
    /\ kp_order = IdOrder
    /\ Constructed
    /\ NoCall
    /\ DfsIdle
    /\ stats \in Profiles
    /\ stats_order = SelectSeq(ProfileNames, LAMBDA n : n \in DOMAIN stats)
    /\ total_questions = QuestionsOf(stats, DOMAIN stats)
    /\ Recorded

Call_recommend_daily_practice ==
    /\ op = "none"
    /\ \E subject \in {"MATH", "CHINESE"}, grade \in 1..3 :
          /\ op' = "recommend_daily_practice"
          /\ args' = [subject |-> subject, grade |-> grade]
          /\ ret' = recommend_daily_practice(subject, grade)
    /\ UNCHANGED <<graphVars, profileVars, dfsVars>>

NextRecommend == Call_recommend_daily_practice

SpecRecommend == InitRecommend /\ [][NextRecommend]_vars

PlanIds == [i \in 1..Len(ret) |-> ret[i].plan_id]

\* the profile has a record with accuracy under 60% and at least 2 attempts whose
\* name is that of a point of the subject with a grade up to the grade of the call
HasWeakPoint ==
    \E kp_name \in DOMAIN stats :
        /\ stats[kp_name].total >= 2
        /\ 100 * (stats[kp_name].total - stats[kp_name].mistakes)
              < 60 * stats[kp_name].total
        /\ \E p \in DOMAIN knowledge_points :
              /\ knowledge_points[p].name = kp_name
              /\ knowledge_points[p].subject = args.subject
              /\ knowledge_points[p].grade <= args.grade

HasRootCause ==
    find_root_causes(get_weak_points(args.subject, args.grade)) /= << >>

-----------------------------------------------------------------------------
(* C9: recommend_daily_practice returns, in this order, the                *)
(* weakness_breakthrough plan iff there is a weak point, the               *)
(* comprehensive_review plan, the quick_practice plan, and the             *)
(* remedial_study plan iff the root-cause list is not empty: 4 plans with  *)
(* a weak point and a root cause, 2 with neither.                          *)
C9_PlanOrder ==
    op = "recommend_daily_practice" =>
        /\ PlanIds =
              (IF HasWeakPoint THEN <<"weakness_breakthrough">> ELSE << >>)
              \o <<"comprehensive_review", "quick_practice">>
              \o (IF HasRootCause THEN <<"remedial_study">> ELSE << >>)
        /\ (HasWeakPoint /\ HasRootCause => Len(ret) = 4)
        /\ (~HasWeakPoint /\ ~HasRootCause => Len(ret) = 2)

C9_Witness ==
    /\ op = "recommend_daily_practice"
    /\ HasWeakPoint
    /\ HasRootCause
    /\ Len(ret) = 4
    /\ ret[4].knowledge_points[1].id /= ret[1].knowledge_points[1].id

-----------------------------------------------------------------------------
(* C10 as stated: the list returned by recommend_daily_practice has 3 or 4 *)
(* plans.                                                                  *)
C10_ThreeOrFourPlans ==
    op = "recommend_daily_practice" => Len(ret) \in {3, 4}

(* C10, amended: the list returned by recommend_daily_practice has between *)
(* 2 and 4 plans, and 2 when the profile yields no weak point.             *)
C10_TwoToFourPlans ==
    op = "recommend_daily_practice" =>
        /\ Len(ret) \in 2..4
        /\ ~HasWeakPoint => Len(ret) = 2

C10_Witness ==
    /\ op = "recommend_daily_practice"
    /\ DOMAIN stats /= {}
    /\ ~HasWeakPoint
    /\ Len(ret) = 2

-----------------------------------------------------------------------------
(* The diagnosis on a curriculum of three MATH points, one of grade 1 and  *)
(* two of grade 2, the second of which shares the display name of the      *)
(* grade 1 point, and one CHINESE point of grade 2 that shares the other   *)
(* display name; no point of grade 3. The prerequisite lists hold at most  *)
(* DiagEdges entries; the profile holds, for any of the two display names  *)
(* and in any insertion order, a record of DiagMaxTotal - 1 or             *)
(* DiagMaxTotal attempts.                                                  *)

DiagName == [A |-> "na", B |-> "nb", C |-> "na", D |-> "nb"]
DiagSubject == [A |-> "MATH", B |-> "MATH", C |-> "MATH", D |-> "CHINESE"]
DiagGrade == [A |-> 1, B |-> 2, C |-> 2, D |-> 2]

DiagCorpus(m) ==
    [p \in PointIds |-> MkPoint(p, DiagName[p], DiagSubject[p], DiagGrade[p], m[p])]

DiagNames == {"na", "nb"}

DiagStatsRecords ==
    UNION {{MkStats(t, m, 0) : m \in 0..t} : t \in (DiagMaxTotal - 1)..DiagMaxTotal}

DiagProfiles == UNION {[names -> DiagStatsRecords] : names \in SUBSET DiagNames}

\* the insertion orders of a dict with the keys S
Orders(S) == {o \in [1..Cardinality(S) -> S] : NoDup(o)}

InitDiagnose ==
    /\ knowledge_points \in {DiagCorpus(m) : m \in PrereqMaps(DiagEdges)}
    /\ kp_order = IdOrder
    /\ stats \in DiagProfiles
    /\ stats_order \in Orders(DOMAIN stats)
    /\ total_questions = QuestionsOf(stats, DOMAIN stats)
    /\ Recorded
    /\ Constructed
    /\ NoCall
    /\ DfsIdle

Call_analyze_mastered_points ==
    /\ op = "none"
    /\ \E subject \in {"MATH", "CHINESE"} :
          /\ op' = "_analyze_mastered_points"
          /\ args' = [subject |-> subject]
          /\ ret' = analyze_mastered_points(subject)
    /\ UNCHANGED <<graphVars, profileVars, dfsVars>>

Call_find_weak_points ==
    /\ op = "none"
    /\ \E subject \in {"MATH", "CHINESE"}, grade \in 1..3 :
          /\ op' = "_find_weak_points"
          /\ args' = [subject |-> subject, grade |-> grade]
          /\ ret' = find_weak_points(subject, grade)
    /\ UNCHANGED <<graphVars, profileVars, dfsVars>>

Call_diagnose_student ==
    /\ op = "none"
    /\ \E subject \in {"MATH", "CHINESE"}, target_grade \in 1..3 :
          /\ op' = "diagnose_student"
          /\ args' = [subject |-> subject, target_grade |-> target_grade]
          /\ ret' = diagnose_student(subject, target_grade)
    /\ UNCHANGED <<graphVars, profileVars, dfsVars>>

NextDiagnose ==
    \/ Call_analyze_mastered_points
    \/ Call_find_weak_points
    \/ Call_diagnose_student

SpecDiagnose == InitDiagnose /\ [][NextDiagnose]_vars

\* the profile's record for the display name of point p has at least 3 attempts
HasRecord(p) ==
    /\ knowledge_points[p].name \in DOMAIN stats
    /\ stats[knowledge_points[p].name].total >= 3

RecordOf(p) == stats[knowledge_points[p].name]

-----------------------------------------------------------------------------
(* C11: a point of the diagnosed subject is in the mastered set iff the    *)
(* profile holds a record keyed by the point's display name with           *)
(* total >= 3 and accuracy_rate >= 80, for every point of the subject,     *)
(* also when several points share one display name.                        *)
C11_MasteredIffRecordQualifies ==
    op = "_analyze_mastered_points" =>
        ret = {p \in DOMAIN knowledge_points :
                  /\ knowledge_points[p].subject = args.subject
                  /\ HasRecord(p)
                  /\ RecordOf(p).accuracy_rate >= 8000}

-----------------------------------------------------------------------------
(* C12: the weak-point list holds exactly the points of the subject with   *)
(* grade <= target_grade whose name-matched record has total >= 3 and      *)
(* accuracy_rate < 60, each at most once, by non-decreasing accuracy_rate. *)
C12_WeakPointsExact ==
    op = "_find_weak_points" =>
        /\ Range(ret) = {p \in DOMAIN knowledge_points :
                            /\ knowledge_points[p].subject = args.subject
                            /\ knowledge_points[p].grade <= args.grade
                            /\ HasRecord(p)
                            /\ RecordOf(p).accuracy_rate < 6000}
        /\ NoDup(ret)
        /\ \A i, j \in 1..Len(ret) :
              i < j => RecordOf(ret[i]).accuracy_rate <= RecordOf(ret[j]).accuracy_rate

-----------------------------------------------------------------------------
(* C13: the recommendations of a diagnosis report are, in this order and   *)
(* with no other entry: a high-priority foundational-remediation entry     *)
(* naming root_causes[0] iff root causes exist; a high-priority grade      *)
(* step-back entry iff actual_grade_level < target_grade - 0.5; a          *)
(* medium-priority targeted-practice entry naming the weak point of lowest *)
(* accuracy iff weak points exist.                                         *)
C13_RecommendationOrder ==
    (op = "diagnose_student" /\ "error" \notin DOMAIN ret) =>
        LET recs == ret.recommendations
            hasRoot == ret.root_causes /= << >>
            stepBack == ret.actual_grade_level < 2 * args.target_grade - 1
            hasWeak == ret.weak_points /= << >>
            k == IF hasRoot THEN 1 ELSE 0
            n == k + (IF stepBack THEN 1 ELSE 0)
        IN  /\ [i \in 1..Len(recs) |-> <<recs[i].priority, recs[i].type>>] =
                  (IF hasRoot THEN <<<<"high", "foundation_remediation">>>> ELSE << >>)
                  \o (IF stepBack THEN <<<<"high", "grade_step_back">>>> ELSE << >>)
                  \o (IF hasWeak THEN <<<<"medium", "targeted_practice">>>> ELSE << >>)
            /\ hasRoot =>
                  recs[1].knowledge_point = knowledge_points[ret.root_causes[1]].name
            /\ hasWeak =>
                  \E w \in Range(ret.weak_points) :
                      /\ recs[n + 1].knowledge_point = knowledge_points[w].name
                      /\ \A v \in Range(ret.weak_points) :
                            RecordOf(w).accuracy_rate <= RecordOf(v).accuracy_rate

C13_Witness ==
    /\ op = "diagnose_student"
    /\ "error" \notin DOMAIN ret
    /\ Len(ret.recommendations) = 3
    /\ Len(ret.weak_points) = 2
    /\ ret.recommendations[1].knowledge_point /= ret.recommendations[3].knowledge_point

\* the grade step-back entry is absent at actual_grade_level = target_grade - 0.5
C13_WitnessBoundary ==
    /\ op = "diagnose_student"
    /\ "error" \notin DOMAIN ret
    /\ ret.actual_grade_level = 2 * args.target_grade - 1
    /\ Len(ret.recommendations) = 0

-----------------------------------------------------------------------------
(* C15: for a profile with no knowledge-point record and a target grade    *)
(* that has points, diagnose_student returns a report with                 *)
(* mastered_count 0, weak_count 0 and no root cause.                       *)
C15_EmptyProfileReport ==
    (/\ op = "diagnose_student"
     /\ DOMAIN stats = {}
     /\ get_points_by_grade_subject(args.subject, args.target_grade) /= {})
    => /\ "error" \notin DOMAIN ret
       /\ ret.mastered_count = 0
       /\ ret.weak_count = 0
       /\ ret.root_causes = << >>

C15_Witness ==
    /\ op = "diagnose_student"
    /\ DOMAIN stats = {}
    /\ args.subject = "MATH"
    /\ args.target_grade = 2
    /\ "error" \notin DOMAIN ret
    /\ ret.mastered_count = 0
    /\ ret.recommendations /= << >>

-----------------------------------------------------------------------------
(* C18 as stated: every plan returned by recommend_daily_practice has all  *)
(* of: id, display name, description, a knowledge-point list whose entries *)
(* carry id, name and recommended question count, total question count,    *)
(* estimated minutes, difficulty label, goal text and priority label.      *)

PlanKeys ==
    {"plan_id", "name", "description", "total_questions", "estimated_time",
     "difficulty", "goal", "priority"}

HasPointList(plan) ==
    /\ "knowledge_points" \in DOMAIN plan
    /\ \A i \in 1..Len(plan.knowledge_points) :
          {"id", "name", "questions_count"} \subseteq DOMAIN plan.knowledge_points[i]

C18_EveryPlanHasAllFields ==
    op = "recommend_daily_practice" =>
        \A i \in 1..Len(ret) :
            /\ PlanKeys \subseteq DOMAIN ret[i]
            /\ HasPointList(ret[i])

(* C18, amended: every plan has id, display name, description, total       *)
(* question count, estimated minutes, difficulty label, goal text and      *)
(* priority label; the weakness_breakthrough and remedial_study plans have *)
(* a knowledge-point list whose entries carry id, name and recommended     *)
(* question count (one entry for the remedial plan, up to three for the    *)
(* weakness plan), the comprehensive_review and quick_practice plans have  *)
(* no knowledge-point list.                                                *)
C18_PlanFields ==
    op = "recommend_daily_practice" =>
        \A i \in 1..Len(ret) :
            /\ PlanKeys \subseteq DOMAIN ret[i]
            /\ ret[i].plan_id \in {"weakness_breakthrough", "remedial_study"}
                  => /\ HasPointList(ret[i])
                     /\ Len(ret[i].knowledge_points) \in 1..3
                     /\ ret[i].plan_id = "remedial_study"
                           => Len(ret[i].knowledge_points) = 1
            /\ ret[i].plan_id \in {"comprehensive_review", "quick_practice"}
                  => "knowledge_points" \notin DOMAIN ret[i]

C18_Witness ==
    /\ op = "recommend_daily_practice"
    /\ Len(ret) = 4
    /\ Len(ret[1].knowledge_points) = 2
    /\ "knowledge_points" \notin DOMAIN ret[2]

-----------------------------------------------------------------------------
(* The entry points that run the diagnosis or the recommender for a        *)
(* student: the CLI commands diagnose, daily and practice (main.py), the   *)
(* screens of the TUI (ui/tui/screens) and those of simple_tui.py. An      *)
(* entry point returns what it called and what it showed; a KeyError       *)
(* raised while it renders is caught by its "except Exception" and shown   *)
(* as the error text.                                                      *)

\* the keys every diagnose entry point reads with report[...]
ReportKeysRead == {"target_grade", "actual_grade_level", "mastered_count", "weak_count"}

\* the keys cli daily and DailyScreen.display_plans read with plan[...]
PlanKeysRead ==
    {"emoji", "name", "description", "total_questions", "estimated_time",
     "difficulty", "goal"}

\* rendering of the value of diagnose_student
show_report(report) ==
    IF ReportKeysRead \subseteq DOMAIN report THEN "report" ELSE "KeyError"

\* rendering of the value of recommend_daily_practice
show_plans(plans) ==
    IF \A i \in 1..Len(plans) : PlanKeysRead \subseteq DOMAIN plans[i]
    THEN "plans" ELSE "KeyError"

\* the part of an entry point from the call of diagnose_student on
run_diagnosis(subject, grade) ==
    LET report == diagnose_student(subject, grade)
    IN  [called |-> <<"diagnose_student">>, report |-> report,
         shown |-> show_report(report)]

\* the part of an entry point from the call of recommend_daily_practice on
load_recommendations(subject, grade) ==
    LET plans == recommend_daily_practice(subject, grade)
    IN  [called |-> <<"recommend_daily_practice">>, plans |-> plans,
         shown |-> show_plans(plans)]

NoRecords == [called |-> << >>, shown |-> "no_records"]

\* main.py diagnose
cli_diagnose(subject, grade) ==
    IF total_questions = 0 THEN NoRecords ELSE run_diagnosis(subject, grade)

\* ui/tui/screens/diagnose.py DiagnoseScreen.run_diagnosis
tui_diagnose(subject, grade) ==
    IF total_questions = 0 THEN NoRecords ELSE run_diagnosis(subject, grade)

\* simple_tui.py DiagnoseDetailScreen.on_mount: Subject.MATH, grade 3
simple_tui_diagnose == run_diagnosis("MATH", 3)

\* main.py daily
cli_daily(subject, grade) ==
    IF total_questions = 0 THEN NoRecords ELSE load_recommendations(subject, grade)

\* ui/tui/screens/daily.py DailyScreen.load_recommendations
tui_daily(subject, grade) ==
    IF total_questions = 0 THEN NoRecords ELSE load_recommendations(subject, grade)

\* simple_tui.py DailyRecommendScreen.on_mount: Subject.MATH, grade 3
simple_tui_daily == load_recommendations("MATH", 3)

\* main.py practice, up to the choice of the plan; plan = 0 stands for no --plan
cli_practice(subject, grade, auto, plan) ==
    LET plans == recommend_daily_practice(subject, grade)
        called == <<"recommend_daily_practice">>
    IN  IF auto
        THEN [called |-> called, selected_plan |-> plans[1].plan_id, shown |-> "practice"]
        ELSE IF plan /= 0
        THEN IF 1 <= plan /\ plan <= Len(plans)
             THEN [called |-> called, selected_plan |-> plans[plan].plan_id,
                   shown |-> "practice"]
             ELSE [called |-> called, shown |-> "invalid_plan"]
        ELSE [called |-> called, shown |-> "mode_required"]

\* DailyScreen.action_start_practice with the plan that is not the first
tui_start_practice_last(subject, grade) ==
    LET loaded == tui_daily(subject, grade)
        plans == IF "plans" \in DOMAIN loaded THEN loaded.plans ELSE << >>
    IN  IF plans /= << >>
        THEN [called |-> loaded.called, selected_plan |-> plans[Len(plans)].plan_id,
              selected_plan_index |-> 0, shown |-> loaded.shown]
        ELSE [called |-> loaded.called, shown |-> loaded.shown]

\* ui/tui/screens/daily.py: DailyScreen.on_mount (self.plans = [] unless the
\* recommender ran), then action_start_practice
tui_start_practice(subject, grade) ==
    LET loaded == tui_daily(subject, grade)
        plans == IF "plans" \in DOMAIN loaded THEN loaded.plans ELSE << >>
    IN  IF plans /= << >>
        THEN [called |-> loaded.called, selected_plan |-> plans[1].plan_id,
              selected_plan_index |-> 0, shown |-> loaded.shown]
        ELSE [called |-> loaded.called, shown |-> loaded.shown]

\* A(<-), B(<-A), C(<-B), D(<-): the prerequisite lists of the curriculum of the
\* entry points
ChainPrereqs == [A |-> << >>, B |-> <<"A">>, C |-> <<"B">>, D |-> << >>]

\* a profile without records has no question, or questions that name no
\* knowledge point
InitEntry ==
    /\ knowledge_points = DiagCorpus(ChainPrereqs)
    /\ kp_order = IdOrder
    /\ stats \in DiagProfiles
    /\ stats_order \in Orders(DOMAIN stats)
    /\ total_questions \in
          IF DOMAIN stats = {} THEN {0, 1} ELSE {QuestionsOf(stats, DOMAIN stats)}
    /\ Recorded
    /\ Constructed
    /\ NoCall
    /\ DfsIdle

Run_cli_diagnose ==
    /\ op = "none"
    /\ \E subject \in {"MATH", "CHINESE"}, grade \in 1..3 :
          /\ op' = "cli_diagnose"
          /\ args' = [subject |-> subject, grade |-> grade]
          /\ ret' = cli_diagnose(subject, grade)
    /\ UNCHANGED <<graphVars, profileVars, dfsVars>>

Run_tui_diagnose ==
    /\ op = "none"
    /\ \E subject \in {"MATH", "CHINESE"}, grade \in 1..3 :
          /\ op' = "tui_diagnose"
          /\ args' = [subject |-> subject, grade |-> grade]
          /\ ret' = tui_diagnose(subject, grade)
    /\ UNCHANGED <<graphVars, profileVars, dfsVars>>

Run_simple_tui_diagnose ==
    /\ op = "none"
    /\ op' = "simple_tui_diagnose"
    /\ args' = [subject |-> "MATH", grade |-> 3]
    /\ ret' = simple_tui_diagnose
    /\ UNCHANGED <<graphVars, profileVars, dfsVars>>

Run_cli_daily ==
    /\ op = "none"
    /\ \E subject \in {"MATH", "CHINESE"}, grade \in 1..3 :
          /\ op' = "cli_daily"
          /\ args' = [subject |-> subject, grade |-> grade]
          /\ ret' = cli_daily(subject, grade)
    /\ UNCHANGED <<graphVars, profileVars, dfsVars>>

Run_tui_daily ==
    /\ op = "none"
    /\ \E subject \in {"MATH", "CHINESE"}, grade \in 1..3 :
          /\ op' = "tui_daily"
          /\ args' = [subject |-> subject, grade |-> grade]
          /\ ret' = tui_daily(subject, grade)
    /\ UNCHANGED <<graphVars, profileVars, dfsVars>>

Run_simple_tui_daily ==
    /\ op = "none"
    /\ op' = "simple_tui_daily"
    /\ args' = [subject |-> "MATH", grade |-> 3]
    /\ ret' = simple_tui_daily
    /\ UNCHANGED <<graphVars, profileVars, dfsVars>>

Run_cli_practice ==
    /\ op = "none"
    /\ \E subject \in {"MATH", "CHINESE"}, grade \in 1..3, auto \in BOOLEAN,
          plan \in {0, 1, 5} :
          /\ op' = "cli_practice"
          /\ args' = [subject |-> subject, grade |-> grade, auto |-> auto, plan |-> plan]
          /\ ret' = cli_practice(subject, grade, auto, plan)
    /\ UNCHANGED <<graphVars, profileVars, dfsVars>>

Run_tui_start_practice ==
    /\ op = "none"
    /\ \E subject \in {"MATH", "CHINESE"}, grade \in 1..3 :
          /\ op' = "tui_start_practice"
          /\ args' = [subject |-> subject, grade |-> grade]
          /\ ret' = tui_start_practice(subject, grade)
    /\ UNCHANGED <<graphVars, profileVars, dfsVars>>

NextEntry ==
    \/ Run_cli_diagnose
    \/ Run_tui_diagnose
    \/ Run_simple_tui_diagnose
    \/ Run_cli_daily
    \/ Run_tui_daily
    \/ Run_simple_tui_daily
    \/ Run_cli_practice
    \/ Run_tui_start_practice

SpecEntry == InitEntry /\ [][NextEntry]_vars

DiagnoseEntries == {"cli_diagnose", "tui_diagnose", "simple_tui_diagnose"}

EntryPoints ==
    DiagnoseEntries \cup {"cli_daily", "tui_daily", "simple_tui_daily", "cli_practice"}

-----------------------------------------------------------------------------
(* C14: when the graph has no knowledge point for (subject, target_grade), *)
(* diagnose_student returns a record carrying an error field and nothing   *)
(* of the analysis, and every caller of diagnose_student handles that      *)
(* record without failing on a missing report field.                       *)
C14_ErrorRecordHandled ==
    (/\ op \in DiagnoseEntries
     /\ ret.called = <<"diagnose_student">>
     /\ get_points_by_grade_subject(args.subject, args.grade) = {})
    => /\ DOMAIN ret.report = {"error"}
       /\ ret.shown /= "KeyError"

-----------------------------------------------------------------------------
(* C20: every entry point that runs the diagnosis or the recommender       *)
(* short-circuits with a message, without calling diagnose_student or      *)
(* recommend_daily_practice, when the profile has zero recorded questions. *)
C20_EmptyProfileShortCircuits ==
    (op \in EntryPoints /\ total_questions = 0)
    => /\ ret.called = << >>
       /\ ret.shown = "no_records"

-----------------------------------------------------------------------------
(* The recommender asked again as days pass: the curriculum of the         *)
(* recommender with the prerequisite chain A, B(<-A), C(<-B); the profile  *)
(* holds, for any of two display names, a record of 1..MaxTotal attempts   *)
(* last practised today or 5 days ago; a day passes at a time, up to       *)
(* MaxAge days, and the recommender may be asked again for the same        *)
(* subject and grade once the profile has aged.                            *)

ReviewNames == <<"na", "nb">>

InitialAges == {0, 5}

ReviewRecords ==
    UNION {{MkStats(t, m, d) : m \in 0..t, d \in InitialAges} : t \in 1..MaxTotal}

ReviewProfiles ==
    UNION {[names -> ReviewRecords] : names \in SUBSET Range(ReviewNames)}

InitReview ==
    /\ knowledge_points = RecCorpus(ChainPrereqs)
    /\ kp_order = IdOrder
    /\ stats \in ReviewProfiles
    /\ stats_order = SelectSeq(ReviewNames, LAMBDA n : n \in DOMAIN stats)
    /\ total_questions = QuestionsOf(stats, DOMAIN stats)
    /\ Recorded
    /\ Constructed
    /\ NoCall
    /\ DfsIdle

\* midnight: every last_practice timestamp is one day older
DayPasses ==
    /\ DOMAIN stats /= {}
    /\ \A n \in DOMAIN stats : stats[n].last_practice < MaxAge
    /\ stats' = [n \in DOMAIN stats |-> [stats[n] EXCEPT !.last_practice = @ + 1]]
    /\ UNCHANGED <<graphVars, stats_order, total_questions, total_mistakes, exams,
                   learning_trend, callVars, dfsVars>>

\* recommend_daily_practice(student_profile, subject, grade), the profile among
\* the arguments
Call_recommend_for_profile ==
    /\ \E subject \in {"MATH", "CHINESE"}, grade \in 1..3 :
          /\ \/ op = "none"
             \/ /\ op = "recommend_daily_practice"
                /\ args.subject = subject
                /\ args.grade = grade
                /\ args.student_profile /= stats
          /\ op' = "recommend_daily_practice"
          /\ args' = [student_profile |-> stats, subject |-> subject, grade |-> grade]
          /\ ret' = recommend_daily_practice(subject, grade)
    /\ UNCHANGED <<graphVars, profileVars, dfsVars>>

NextReview == DayPasses \/ Call_recommend_for_profile

SpecReview == InitReview /\ [][NextReview]_vars

\* the names of the records of profile st that match a point of the subject up to
\* the grade and are stale (last practised more than 7 days ago)
StaleNames(st, subject, grade) ==
    {n \in DOMAIN st :
        /\ st[n].last_practice >= 7
        /\ \E p \in DOMAIN knowledge_points :
              /\ knowledge_points[p].name = n
              /\ knowledge_points[p].subject = subject
              /\ knowledge_points[p].grade <= grade}

\* ... and are due (last practised within 1 day of 7, 15 or 30 days ago)
DueNames(st, subject, grade) ==
    {n \in DOMAIN st :
        /\ \E r \in {7, 15, 30} : st[n].last_practice - r \in {-1, 0, 1}
        /\ \E p \in DOMAIN knowledge_points :
              /\ knowledge_points[p].name = n
              /\ knowledge_points[p].subject = subject
              /\ knowledge_points[p].grade <= grade}

\* profiles a and b are identical except for the last_practice timestamps
SameButLastPractice(a, b) ==
    /\ DOMAIN a = DOMAIN b
    /\ \A n \in DOMAIN a :
          [a[n] EXCEPT !.last_practice = 0] = [b[n] EXCEPT !.last_practice = 0]

\* a step that asks again, for the same subject and grade, with a profile that
\* differs in last_practice only
AskedAgain ==
    /\ op = "recommend_daily_practice"
    /\ op' = "recommend_daily_practice"
    /\ args'.subject = args.subject
    /\ args'.grade = args.grade
    /\ args'.student_profile /= args.student_profile
    /\ SameButLastPractice(args.student_profile, args'.student_profile)

-----------------------------------------------------------------------------
(* C19: the plan list combines the weak points with the stale points and   *)
(* the points due for review: when two profiles identical except for       *)
(* last_practice differ in which points are stale or due, the plan lists   *)
(* they receive differ.                                                    *)
C19_SignalsChangePlans ==
    [][(/\ AskedAgain
        /\ \/ StaleNames(args.student_profile, args.subject, args.grade)
                 /= StaleNames(args'.student_profile, args.subject, args.grade)
           \/ DueNames(args.student_profile, args.subject, args.grade)
                 /= DueNames(args'.student_profile, args.subject, args.grade))
       => ret' /= ret]_vars

\* what the code does: the plan list is the same whatever the timestamps are
PlansIgnoreLastPractice ==
    [][AskedAgain => ret' = ret]_vars

-----------------------------------------------------------------------------
(* Graph construction from a configuration directory with at most MaxFiles *)
(* files, in any of the 18 places <<subject, grade>>, those of English     *)
(* grades 1 and 2 included. A file is unreadable, or holds one well-formed *)
(* point of its own, or that point and an entry that does not parse, or a  *)
(* point whose id other files define too.                                  *)

SlotId(slot) == slot[1] \o "_" \o ToString(slot[2])

SharedId == "shared"

FileKinds == {"unreadable", "own", "own_and_bad", "shared"}

FileOfKind(slot, kind) ==
    IF kind = "unreadable" THEN UnreadableFile
    ELSE IF kind = "own"
    THEN ReadableFile(<<PointEntry(SlotId(slot), SlotId(slot), << >>, TRUE)>>)
    ELSE IF kind = "own_and_bad"
    THEN ReadableFile(<<PointEntry(SlotId(slot), SlotId(slot), << >>, TRUE),
                        PointEntry(SlotId(slot) \o "_bad", "", << >>, FALSE)>>)
    ELSE ReadableFile(<<PointEntry(SharedId, SlotId(slot), << >>, TRUE)>>)

\* the sets of at most k places
RECURSIVE SlotSets(_)
SlotSets(k) ==
    IF k = 0 THEN {{}}
    ELSE LET S == SlotSets(k - 1) IN S \cup {T \cup {x} : T \in S, x \in AllSlots}

\* the configuration directory with the files of the given kinds
ConfigDir(kinds) ==
    [slot \in AllSlots |->
        IF slot \in DOMAIN kinds THEN FileOfKind(slot, kinds[slot]) ELSE MissingFile]

\* __init__: self.knowledge_points = {}, then _load_all_knowledge starts
InitLoad ==
    /\ \E S \in SlotSets(MaxFiles) :
           \E kinds \in [S -> FileKinds] : config_files = ConfigDir(kinds)
    /\ knowledge_points = << >>
    /\ kp_order = << >>
    /\ load_pos = 1
    /\ NoProfile
    /\ NoCall
    /\ DfsIdle

\* one iteration of the loops of _load_all_knowledge
LoadStep ==
    /\ load_pos <= Len(SlotSeq)
    /\ LET subject == SlotSeq[load_pos][1]
           grade == SlotSeq[load_pos][2]
           grade_knowledge ==
               IF english_skipped(subject, grade) THEN NotLoaded
               ELSE load_grade_knowledge(subject, grade)
           g == IF grade_knowledge.loaded
                THEN add_points([kp |-> knowledge_points, order |-> kp_order],
                                grade_knowledge.points, 1)
                ELSE [kp |-> knowledge_points, order |-> kp_order]
       IN  /\ knowledge_points' = g.kp
           /\ kp_order' = g.order
    /\ load_pos' = load_pos + 1
    /\ UNCHANGED <<config_files, profileVars, callVars, dfsVars>>

NextLoad == LoadStep

SpecLoad == InitLoad /\ [][NextLoad]_vars

\* the places the claim says are attempted: every subject and grade 1..6 except
\* English grades 1 and 2
AttemptedSlots == {slot \in AllSlots : ~(slot[1] = "ENGLISH" /\ slot[2] \in {1, 2})}

LoadedFiles == {slot \in AttemptedSlots : config_files[slot].status = "ok"}

EntriesOf(slot) == Range(config_files[slot].points)

-----------------------------------------------------------------------------
(* C16 as stated: after construction the mapping has an entry for every    *)
(* point id of every successfully loaded file (the attempted places are    *)
(* every subject and grade 1..6 except English grades 1 and 2), and for no *)
(* other id; missing and unreadable files contribute nothing and stop      *)
(* nothing.                                                                *)
C16_EveryListedIdLoaded ==
    load_pos = Len(SlotSeq) + 1 =>
        DOMAIN knowledge_points =
            UNION {{e.id : e \in EntriesOf(slot)} : slot \in LoadedFiles}

(* C16, amended: after construction the mapping has an entry for every     *)
(* point entry that parses of every successfully loaded file of the        *)
(* attempted places, and for no other id: an entry that does not parse is  *)
(* skipped like a missing file, and the other points of its file load.     *)
C16_EveryParsedIdLoaded ==
    load_pos = Len(SlotSeq) + 1 =>
        /\ DOMAIN knowledge_points =
              UNION {{e.id : e \in {x \in EntriesOf(slot) : x.parses}} :
                     slot \in LoadedFiles}
        /\ Range(kp_order) = DOMAIN knowledge_points
        /\ NoDup(kp_order)
        /\ \A p \in DOMAIN knowledge_points :
              \E slot \in LoadedFiles :
                  /\ knowledge_points[p].subject = slot[1]
                  /\ knowledge_points[p].grade = slot[2]

\* a file of English grade 1 exists and is not loaded; a loaded file holds an
\* entry that does not parse
C16_Witness ==
    /\ load_pos = Len(SlotSeq) + 1
    /\ config_files[<<"ENGLISH", 1>>].status = "ok"
    /\ \E slot \in LoadedFiles : Cardinality(EntriesOf(slot)) = 2
    /\ Cardinality(DOMAIN knowledge_points) = 1

\* the first file is unreadable and a later one is loaded
C16_WitnessUnreadable ==
    /\ load_pos = Len(SlotSeq) + 1
    /\ config_files[<<"MATH", 1>>].status = "unreadable"
    /\ "ENGLISH_6" \in DOMAIN knowledge_points

-----------------------------------------------------------------------------
(* A session of traversals on one constructed graph: a traversal starts    *)
(* while the value of the traversal before it is still held by the caller. *)

SessionStart ==
    \E x \in AllIds :
        /\ StartTraversal(x)
        /\ UNCHANGED <<graphVars, profileVars, callVars>>

InitSession == InitCorpus(QueryEdges)

NextSession == SessionStart \/ DfsVisit \/ DfsFinish \/ DfsReturn

SpecSession == InitSession /\ [][NextSession]_vars

-----------------------------------------------------------------------------
(* C17: after construction no call changes the graph's id-to-point mapping *)
(* or a prerequisites list, and each traversal uses its own visited set: a *)
(* traversal returns the closure of its point whatever ran before it.      *)
C17_GraphReadOnly ==
    /\ [][/\ knowledge_points' = knowledge_points
          /\ kp_order' = kp_order
          /\ config_files' = config_files]_vars
    /\ [](dfs_pc = "done" =>
            result = dfs(point_id, point_id, [visited |-> {}, result |-> << >>]).result)

\* a second traversal ends on points the traversal before it had visited
C17_Witness ==
    /\ dfs_pc = "done"
    /\ op = "get_all_prerequisites_recursive"
    /\ args.point_id /= point_id
    /\ Range(ret) \cap Range(result) /= {}
    /\ args.point_id \in Range(result)

-----------------------------------------------------------------------------
(* C21: a caller that takes one default plan (CLI practice --auto, the     *)
(* start-practice action of the TUI) takes the first plan of the list the  *)
(* recommender returned, and that plan is weakness_breakthrough when the   *)
(* student has a weak point and comprehensive_review otherwise. The CLI    *)
(* always takes one; the TUI takes one whenever its recommender ran.       *)
DefaultPlanCallers == {"cli_practice", "tui_start_practice"}

C21_DefaultPlanIsFirst ==
    (op \in DefaultPlanCallers /\ (op = "cli_practice" => args.auto)) =>
        /\ "selected_plan" \in DOMAIN ret <=> ret.called /= << >>
        /\ op = "cli_practice" => ret.called /= << >>
        /\ "selected_plan" \in DOMAIN ret =>
              /\ ret.selected_plan =
                    recommend_daily_practice(args.subject, args.grade)[1].plan_id
              /\ ret.selected_plan =
                    IF HasWeakPoint THEN "weakness_breakthrough"
                    ELSE "comprehensive_review"

\* the CLI took the weakness plan by default
C21_Witness ==
    /\ op = "cli_practice"
    /\ args.auto
    /\ HasWeakPoint
    /\ ret.selected_plan = "weakness_breakthrough"

\* the TUI took the comprehensive plan for a student with records and no weak point
C21_WitnessTui ==
    /\ op = "tui_start_practice"
    /\ ~HasWeakPoint
    /\ DOMAIN stats /= {}
    /\ "selected_plan" \in DOMAIN ret
    /\ ret.selected_plan = "comprehensive_review"

-----------------------------------------------------------------------------
(* The diagnosis on a wide curriculum: one MATH point "base" of grade 1    *)
(* and up to MaxWeak MATH points w1, w2, ... of grade 1, each with a       *)
(* record of 3 attempts and 2 or 3 mistakes. Each of the first VariedWeak  *)
(* of them has no prerequisite, or "base", or the point before it; the     *)
(* others have none. "base" has no record or a record without mistakes.    *)

BaseId == "base"

WeakId(i) == "w" \o ToString(i)

WideIds(n) == {BaseId} \cup {WeakId(i) : i \in 1..n}

WidePrereqs(i, choice) ==
    IF choice = "base" THEN <<BaseId>>
    ELSE IF choice = "previous" /\ i > 1 THEN <<WeakId(i - 1)>>
    ELSE << >>

WideCorpus(n, choices) ==
    [p \in WideIds(n) |->
        IF p = BaseId THEN MkPoint(BaseId, BaseId, "MATH", 1, << >>)
        ELSE LET i == CHOOSE j \in 1..n : WeakId(j) = p
             IN  MkPoint(p, p, "MATH", 1,
                         IF i <= VariedWeak THEN WidePrereqs(i, choices[i]) ELSE << >>)]

WideProfile(n, mistakes, base_mastered) ==
    [name \in {WeakId(i) : i \in 1..n} \cup (IF base_mastered THEN {BaseId} ELSE {}) |->
        IF name = BaseId THEN MkStats(3, 0, 0)
        ELSE LET i == CHOOSE j \in 1..n : WeakId(j) = name
             IN  MkStats(3, IF i <= VariedWeak THEN mistakes[i] ELSE 3, 0)]

InitRootCauses ==
    /\ \E n \in 0..MaxWeak, base_mastered \in BOOLEAN :
       \E choices \in [1..VariedWeak -> {"none", "base", "previous"}],
          mistakes \in [1..VariedWeak -> {2, 3}] :
          /\ knowledge_points = WideCorpus(n, choices)
          /\ kp_order = <<BaseId>> \o [i \in 1..n |-> WeakId(i)]
          /\ stats = WideProfile(n, mistakes, base_mastered)
          /\ stats_order = [i \in 1..n |-> WeakId(i)]
                              \o (IF base_mastered THEN <<BaseId>> ELSE << >>)
    /\ total_questions = QuestionsOf(stats, DOMAIN stats)
    /\ Recorded
    /\ Constructed
    /\ NoCall
    /\ DfsIdle

NextRootCauses == Call_diagnose_student

SpecRootCauses == InitRootCauses /\ [][NextRootCauses]_vars

\* the entries of s that no earlier entry equals, in the order of s
Firsts(s) ==
    LET keep == {i \in 1..Len(s) : \A j \in 1..(i - 1) : s[j] /= s[i]}
    IN  [k \in 1..Cardinality(keep) |->
            s[CHOOSE i \in keep : Cardinality({j \in keep : j <= i}) = k]]

\* the value of find_weak_point_root_cause for each weak point of the call, in
\* weak-point order
RootCausePerWeakPoint ==
    LET weak_points == find_weak_points(args.subject, args.target_grade)
        mastered_points == analyze_mastered_points(args.subject)
    IN  [i \in 1..Len(weak_points) |->
            find_weak_point_root_cause(weak_points[i], mastered_points)]

-----------------------------------------------------------------------------
(* C22: in diagnose_student the root causes are the values of              *)
(* find_weak_point_root_cause for the weak points, in weak-point order,    *)
(* with no id twice and each root cause at the place of its first          *)
(* occurrence; the report's root_causes are the first 10 of them.          *)
C22_RootCausesDeduplicated ==
    (op = "diagnose_student" /\ "error" \notin DOMAIN ret) =>
        /\ ret.root_causes =
              Take(Firsts(SelectSeq(RootCausePerWeakPoint, LAMBDA r : r /= None)), 10)
        /\ NoDup(ret.root_causes)
        /\ Len(ret.root_causes) <= 10

\* more than 10 root causes, one of them found for two weak points, and the
\* weak points not in the order of the profile
C22_Witness ==
    /\ op = "diagnose_student"
    /\ "error" \notin DOMAIN ret
    /\ Len(Firsts(RootCausePerWeakPoint)) > 10
    /\ ~NoDup(RootCausePerWeakPoint)
    /\ Len(ret.root_causes) = 10
    /\ ret.weak_points[1] /= stats_order[1]

-----------------------------------------------------------------------------
(* C23: for the same graph, profile and subject, the root cause the        *)
(* recommender finds for each of its top 5 weak points is the one found    *)
(* with the mastered set of the diagnosis (a point is mastered only when   *)
(* its name-matched record has >= 3 attempts and >= 80% accuracy), so the  *)
(* remedial plan targets the first root cause found that way.              *)
DiagnosisRootCauseOf(weak_point) ==
    find_weak_point_root_cause(weak_point, analyze_mastered_points(args.subject))

C23_RootCauseSearchAgrees ==
    op = "recommend_daily_practice" =>
        LET weak_points == get_weak_points(args.subject, args.grade)
            top == Take([i \in 1..Len(weak_points) |-> weak_points[i][1]], 5)
        IN  /\ \A i \in 1..Len(top) :
                  find_weak_point_root_cause(top[i], recommender_mastered)
                      = DiagnosisRootCauseOf(top[i])
            /\ ret[Len(ret)].plan_id = "remedial_study" =>
                  ret[Len(ret)].knowledge_points[1].id = DiagnosisRootCauseOf(top[1])

-----------------------------------------------------------------------------
(* C24: for any non-empty weak-point list the weakness_breakthrough plan   *)
(* lists the weakest points, lowest accuracy first (3 of them, all of them *)
(* when there are fewer), with 5 questions each, and its total_questions   *)
(* is 15 and the sum of the questions_count of the points it lists.        *)
RECURSIVE SumQuestions(_, _)
SumQuestions(kps, n) ==
    IF n = 0 THEN 0 ELSE SumQuestions(kps, n - 1) + kps[n].questions_count

C24_WeaknessPlanQuestions ==
    (op = "recommend_daily_practice" /\ ret[1].plan_id = "weakness_breakthrough") =>
        LET kps == ret[1].knowledge_points
            weak_points == get_weak_points(args.subject, args.grade)
        IN  /\ [i \in 1..Len(kps) |-> kps[i].id]
                   = Take([i \in 1..Len(weak_points) |-> weak_points[i][1]], 3)
            /\ \A i \in 1..Len(kps) :
                  /\ kps[i].questions_count = 5
                  /\ kps[i].current_accuracy = get_point_accuracy(kps[i].id)
                  /\ i > 1 => kps[i - 1].current_accuracy <= kps[i].current_accuracy
            /\ ret[1].total_questions = 15
            /\ ret[1].total_questions = SumQuestions(kps, Len(kps))

-----------------------------------------------------------------------------
(* C25: the remedial_study plan targets exactly one knowledge point with   *)
(* 15 questions, priority high and is_remedial set, and that point is a    *)
(* transitive prerequisite of one of the top 5 weak points and is not one  *)
(* of the weak points.                                                     *)
TopWeakPoints ==
    LET weak_points == get_weak_points(args.subject, args.grade)
    IN  Range(Take([i \in 1..Len(weak_points) |-> weak_points[i][1]], 5))

RemedialShape(plan) ==
    /\ Len(plan.knowledge_points) = 1
    /\ plan.knowledge_points[1].questions_count = 15
    /\ plan.total_questions = 15
    /\ plan.priority = "high"
    /\ plan.is_remedial

C25_RemedialTargetsPrerequisite ==
    (op = "recommend_daily_practice" /\ ret[Len(ret)].plan_id = "remedial_study") =>
        LET target == ret[Len(ret)].knowledge_points[1].id
        IN  /\ RemedialShape(ret[Len(ret)])
            /\ \E w \in TopWeakPoints : target \in Range(get_all_prerequisites_recursive(w))
            /\ target \notin TopWeakPoints

-----------------------------------------------------------------------------
(* C26: in any corpus, cyclic or not, the set of points that               *)
(* get_all_prerequisites_recursive(X) returns is the set of the existing   *)
(* points reachable from X along prerequisite entries through existing     *)
(* points, without X: a cycle never drops a reachable point.               *)
C26_ClosureSetComplete ==
    op = "get_all_prerequisites_recursive" =>
        Range(ret) = Ancestors(args.point_id) \ {args.point_id}

\* X lies on a cycle, a point of the result precedes one of its own
\* prerequisites, and the result still holds every point of the cycle
C26_Witness ==
    /\ op = "get_all_prerequisites_recursive"
    /\ args.point_id \in Ancestors(args.point_id)
    /\ Len(ret) >= 2
    /\ \E i \in 1..Len(ret) : \E q \in DirectPrereqs(ret[i]) :
          q /= args.point_id /\ IndexOf(ret, q) > i
    /\ Range(ret) = Ancestors(args.point_id) \ {args.point_id}

-----------------------------------------------------------------------------
(* C27: in an acyclic corpus, for an existing point W that is not in M,    *)
(* find_weak_point_root_cause(W, M) returns a minimal unmastered point: a  *)
(* point that is not in M and whose existing transitive prerequisites are  *)
(* all in M; in any corpus it returns None only for a W that is not in the *)
(* graph.                                                                  *)
C27_RootCauseMinimal ==
    op = "find_weak_point_root_cause" =>
        /\ (/\ Acyclic
            /\ args.weak_point_id \in DOMAIN knowledge_points
            /\ args.weak_point_id \notin args.student_mastered)
           => /\ ret \in DOMAIN knowledge_points
              /\ ret \notin args.student_mastered
              /\ Ancestors(ret) \subseteq args.student_mastered
        /\ ret = None => args.weak_point_id \notin DOMAIN knowledge_points

\* the root cause is a prerequisite of a prerequisite of W, found behind a
\* mastered point of the closure
C27_Witness ==
    /\ op = "find_weak_point_root_cause"
    /\ Acyclic
    /\ args.weak_point_id \in DOMAIN knowledge_points
    /\ args.weak_point_id \notin args.student_mastered
    /\ ret /= args.weak_point_id
    /\ Len(get_all_prerequisites_recursive(args.weak_point_id)) >= 2
    /\ get_all_prerequisites_recursive(args.weak_point_id)[1] \in args.student_mastered
    /\ Ancestors(ret) /= {}

-----------------------------------------------------------------------------
-----------------------------------------------------------------------------
(* C29: for a fixed graph, subject and target grade _estimate_grade_level  *)
(* is monotone in the mastered set: the estimate for M without any one of  *)
(* its points is not above the estimate for M (every pair M subset of M'   *)
(* of the mastered sets called is joined by such steps); the estimate is a *)
(* multiple of 0.5 between 0 and target_grade (0..2 * target_grade in half *)
(* grades).                                                                *)
EstimateWithout(p) ==
    estimate_grade_level(args.mastered_points \ {p}, args.subject, args.target_grade)

C29_EstimateMonotone ==
    op = "_estimate_grade_level" =>
        /\ \A p \in args.mastered_points : EstimateWithout(p) <= ret
        /\ ret \in 0..(2 * args.target_grade)

\* the target grade is reached, and is not without one of the mastered points
C29_Witness ==
    /\ op = "_estimate_grade_level"
    /\ args.target_grade >= 2
    /\ ret = 2 * args.target_grade
    /\ \E p \in args.mastered_points : EstimateWithout(p) < ret - 1

-----------------------------------------------------------------------------
(* A newly created profile and the exams added to it, up to MaxExams. An   *)
(* exam has at most two questions; a question is a mistake or not and      *)
(* names no knowledge point, or "na", or "na" and "nb", or "na" twice.     *)

Questions ==
    [is_mistake : BOOLEAN,
     knowledge_points : {<< >>, <<"na">>, <<"na", "nb">>, <<"na", "na">>}]

ExamData == {<< >>} \cup {<<q>> : q \in Questions} \cup (Questions \X Questions)

\* StudentProfile.__init__ without a profile file
InitProfile ==
    /\ knowledge_points = RecCorpus(ChainPrereqs)
    /\ kp_order = IdOrder
    /\ NoProfile
    /\ Constructed
    /\ NoCall
    /\ DfsIdle

AddExam ==
    /\ Len(exams) < MaxExams
    /\ \E questions \in ExamData :
          LET p == add_exam([stats |-> stats, stats_order |-> stats_order,
                             total_questions |-> total_questions,
                             total_mistakes |-> total_mistakes,
                             exams |-> exams, learning_trend |-> learning_trend],
                            questions)
          IN  /\ stats' = p.stats
              /\ stats_order' = p.stats_order
              /\ total_questions' = p.total_questions
              /\ total_mistakes' = p.total_mistakes
              /\ exams' = p.exams
              /\ learning_trend' = p.learning_trend
              /\ op' = "add_exam"
              /\ args' = [questions |-> questions]
              /\ ret' = p.exam_record
    /\ UNCHANGED <<graphVars, dfsVars>>

NextProfile == AddExam

SpecProfile == InitProfile /\ [][NextProfile]_vars

RECURSIVE ExamQuestions(_)
ExamQuestions(n) ==
    IF n = 0 THEN 0 ELSE ExamQuestions(n - 1) + exams[n].total_questions

-----------------------------------------------------------------------------
(* C30: after any sequence of add_exam calls on a newly created profile    *)
(* every knowledge-point record has total >= 1, 0 <= mistakes <= total and *)
(* accuracy_rate = 100 * (total - mistakes) / total rounded to 2 decimals  *)
(* (the multiple of 0.01 nearest to it); total_mistakes <= total_questions;*)
(* total_questions is the sum of the exams' total_questions; the exam ids  *)
(* are 1..n in order and learning_trend has one entry per exam.            *)
C30_ProfileInvariants ==
    /\ \A n \in DOMAIN stats :
          /\ stats[n].total >= 1
          /\ 0 <= stats[n].mistakes
          /\ stats[n].mistakes <= stats[n].total
          /\ 2 * (stats[n].accuracy_rate * stats[n].total
                    - 10000 * (stats[n].total - stats[n].mistakes)) <= stats[n].total
          /\ 2 * (10000 * (stats[n].total - stats[n].mistakes)
                    - stats[n].accuracy_rate * stats[n].total) <= stats[n].total
    /\ Range(stats_order) = DOMAIN stats
    /\ total_mistakes <= total_questions
    /\ total_questions = ExamQuestions(Len(exams))
    /\ \A i \in 1..Len(exams) : exams[i].exam_id = i
    /\ Len(learning_trend) = Len(exams)
    /\ \A i \in 1..Len(exams) : learning_trend[i].exam_id = i

\* two exams; a record counts more attempts than the profile has questions, and
\* its accuracy is not a whole percentage
C30_Witness ==
    /\ Len(exams) = 2
    /\ "na" \in DOMAIN stats
    /\ stats["na"].total > total_questions
    /\ stats["na"].accuracy_rate % 100 /= 0
    /\ total_mistakes >= 1

====
